---- MODULE Spec2Model ----
(***************************************************************************)
(* Model of the vPGM structured-output pipeline of P-GALM:                 *)
(*   scienceqa_vpgm_loader.get_template_by_id                              *)
(*   build_vpgm_llm_prompt.build_vpgm_prompt                               *)
(*   vpgm_llm_client.extract_json_from_text / parse_vpgm_instance          *)
(*   vpgm_llm_client.validate_probability_dict                             *)
(*   vpgm_llm_client.validate_vpgm_instance_against_template               *)
(*   vpgm_llm_client.infer_vpgm_for_skeleton                               *)
(*                                                                         *)
(* JSON values are tagged records of one shape, so that any two of them    *)
(* can be compared.  Probabilities are integers in thousandths (One is     *)
(* 1.0).  A text is a sequence of lexical tokens; '{' and '}' occur only   *)
(* as punctuation tokens, so str.find('{') / str.rfind('}') and slicing    *)
(* are positions in the token sequence.                                    *)
(***************************************************************************)
EXTENDS Integers, Sequences, FiniteSets, TLC

VARIABLES
    pc,            \* position inside infer_vpgm_for_skeleton
    template_full, \* argument: the template document
    template_id,   \* argument: the requested template id
    skeleton,      \* argument: the skeleton
    max_retries,   \* argument: the attempt budget
    retry_sleep_seconds, \* argument: the delay between attempts
    template,      \* local: the resolved template
    prompt,        \* local: the compiled prompt
    attempt,       \* local: loop variable of range(max_retries)
    raw_output,    \* local: oracle reply of the current attempt
    instance,      \* local: parsed structure of the current attempt
    exc,           \* exception in flight inside the try block
    last_error,    \* local: last caught exception
    outcome,       \* what the call returned or raised
    calls,         \* history: oracle invocations started
    in_flight,     \* history: oracle invocations not yet returned
    sleeps,        \* history: the duration of each time.sleep call
    prompts,       \* history: prompt of each oracle invocation
    trace,         \* history: gate reached by each attempt
    fn_in,         \* argument of a pure function under test
    fn_out         \* its result

vars == <<pc, template_full, template_id, skeleton, max_retries,
          retry_sleep_seconds, template,
          prompt, attempt, raw_output, instance, exc, last_error, outcome,
          calls, in_flight, sleeps, prompts, trace, fn_in, fn_out>>

-----------------------------------------------------------------------------
(* JSON values as Python sees them after json.loads *)

Null == [k |-> "null", s |-> "", n |-> 0, items |-> <<>>]

Str(x) == [k |-> "str", s |-> x, n |-> 0, items |-> <<>>]

Num(x) == [k |-> "num", s |-> "", n |-> x, items |-> <<>>]

Pair(key, val) == [key |-> key, val |-> val]

\* a dict: members in insertion order
Obj(members) == [k |-> "obj", s |-> "", n |-> 0, items |-> members]

\* a list: elements in order (the key of an element is unused)
Arr(elems) == [k |-> "arr", s |-> "", n |-> 0,
               items |-> [i \in 1..Len(elems) |-> Pair("", elems[i])]]

IsDict(v) == v.k = "obj"

HasKey(v, key) == \E i \in 1..Len(v.items) : v.items[i].key = key

Lookup(v, key) ==
    v.items[CHOOSE i \in 1..Len(v.items) : v.items[i].key = key].val

Keys(v) == [i \in 1..Len(v.items) |-> v.items[i].key]

\* Python truthiness: bool(v)
Truthy(v) ==
    CASE v.k = "null" -> FALSE
      [] v.k = "str"  -> v.s # ""
      [] v.k = "num"  -> v.n # 0
      [] OTHER        -> Len(v.items) > 0

\* exceptions
NoExc == [type |-> "none", msg |-> "", at |-> ""]

Exc(type, msg, at) == [type |-> type, msg |-> msg, at |-> at]

\* `key in c`: "yes", "no", or "TypeError" when c is not iterable.
\* For a str c Python tests for a substring; every string of the model is
\* atomic and none properly contains another, so that test is equality.
PyIn(key, c) ==
    CASE c.k = "obj" -> IF HasKey(c, key) THEN "yes" ELSE "no"
      [] c.k = "arr" -> IF \E i \in 1..Len(c.items) : c.items[i].val = Str(key)
                        THEN "yes" ELSE "no"
      [] c.k = "str" -> IF c.s = key THEN "yes" ELSE "no"
      [] OTHER       -> "TypeError"

\* `c[key]` with a str key: "ok", "KeyError" or "TypeError"
PyGetItem(c, key) ==
    CASE c.k = "obj" /\ HasKey(c, key) -> [type |-> "ok", val |-> Lookup(c, key)]
      [] c.k = "obj"                   -> [type |-> "KeyError", val |-> Null]
      [] OTHER                         -> [type |-> "TypeError", val |-> Null]

\* `c.get(key, default)`: "ok" or "AttributeError" when c is not a dict
PyGet(c, key, default) ==
    CASE c.k = "obj" /\ HasKey(c, key) -> [type |-> "ok", val |-> Lookup(c, key)]
      [] c.k = "obj"                   -> [type |-> "ok", val |-> default]
      [] OTHER                         -> [type |-> "AttributeError", val |-> Null]

-----------------------------------------------------------------------------
(* validate_probability_dict *)

\* 1.0 in thousandths
One == 1000

\* the default tolerance 1e-3 in thousandths
DefaultTolerance == 1

Abs(x) == IF x < 0 THEN 0 - x ELSE x

RECURSIVE ProbLoop_NoRange(_, _, _)
\* faulty variant: the loop without the range test of line 135
ProbLoop_NoRange(items, i, total) ==
    IF i > Len(items) THEN [type |-> "ok", msg |-> "", total |-> total]
    ELSE LET v == items[i].val IN
         IF v.k # "num"
         THEN [type |-> "ValueError", msg |-> "not_a_number", total |-> total]
         ELSE ProbLoop_NoRange(items, i + 1, total + v.n)

RECURSIVE ProbLoop(_, _, _)
\* the for loop over probs.items(): first offending entry, else the total
ProbLoop(items, i, total) ==
    IF i > Len(items) THEN [type |-> "ok", msg |-> "", total |-> total]
    ELSE LET v == items[i].val IN
         IF v.k # "num"
         THEN [type |-> "ValueError", msg |-> "not_a_number", total |-> total]
         ELSE IF ~(0 <= v.n /\ v.n <= One)
         THEN [type |-> "ValueError", msg |-> "out_of_range", total |-> total]
         ELSE ProbLoop(items, i + 1, total + v.n)

\* faulty variant: the deviation is taken without abs()
SumExceeds_NoAbs(total, tolerance) == total - One > tolerance

\* abs(total - 1.0) > tolerance
SumExceeds(total, tolerance) == Abs(total - One) > tolerance

\* NoExc when the check passes, else the exception raised; `at` names the
\* call site for the diagnosis
validate_probability_dict(probs, tolerance, at) ==
    IF ~Truthy(probs) THEN Exc("ValueError", "empty", at)
    ELSE IF ~IsDict(probs) THEN Exc("AttributeError", "items", at)
    ELSE LET r == ProbLoop(probs.items, 1, 0) IN
         IF r.type # "ok" THEN Exc(r.type, r.msg, at)
         ELSE IF SumExceeds(r.total, tolerance)
         THEN Exc("ValueError", "sum", at)
         ELSE NoExc

-----------------------------------------------------------------------------
(* validate_vpgm_instance_against_template *)

required_keys ==
    <<"template_id", "question_meta", "observed", "latent_posteriors",
      "answer_posterior">>

\* `if key not in c: raise ValueError(msg)`
Require(key, c, msg, at) ==
    CASE PyIn(key, c) = "TypeError" -> Exc("TypeError", "not_iterable", at)
      [] PyIn(key, c) = "no"        -> Exc("ValueError", msg, at)
      [] OTHER                      -> NoExc

\* `c[key]` where only the failure matters
Subscript(c, key, at) ==
    IF PyGetItem(c, key).type = "ok" THEN NoExc
    ELSE Exc(PyGetItem(c, key).type, "subscript", at)

RECURSIVE CheckTopLevel(_, _)
\* lines 157-160: the loop over required_keys
CheckTopLevel(inst, i) ==
    IF i > Len(required_keys) THEN NoExc
    ELSE IF Require(required_keys[i], inst, "missing_top_level_key",
                    required_keys[i]) # NoExc
    THEN Require(required_keys[i], inst, "missing_top_level_key", required_keys[i])
    ELSE CheckTopLevel(inst, i + 1)

\* lines 163-166: the id an instance must carry
ExpectedId(tmpl) ==
    LET own == PyGet(tmpl, "id", Null).val IN
    IF ~Truthy(own) /\ PyIn("instance_fields", tmpl) = "yes"
    THEN PyGet(Lookup(tmpl, "instance_fields"), "template_id", Null).val
    ELSE own

\* faulty variant: the comparison of line 168 left out
CheckTemplateId_Skip(inst, tmpl) == Subscript(inst, "template_id", "template_id")

\* lines 168-169
CheckTemplateId(inst, tmpl) ==
    IF Subscript(inst, "template_id", "template_id") # NoExc
    THEN Subscript(inst, "template_id", "template_id")
    ELSE IF Lookup(inst, "template_id") # ExpectedId(tmpl)
    THEN Exc("ValueError", "template_id_mismatch", "template_id")
    ELSE NoExc

\* line 172: the latent names the template declares, in order
TemplateLatents(tmpl) ==
    Keys(PyGet(PyGet(tmpl, "instance_fields", Obj(<<>>)).val,
               "latent_posteriors", Obj(<<>>)).val)

\* lines 176-185: the body of the loop for one latent
CheckLatent(instance_latents, latent_name) ==
    IF Require(latent_name, instance_latents, "missing_latent", latent_name) # NoExc
    THEN Require(latent_name, instance_latents, "missing_latent", latent_name)
    ELSE IF Subscript(instance_latents, latent_name, latent_name) # NoExc
    THEN Subscript(instance_latents, latent_name, latent_name)
    ELSE LET latent_data == Lookup(instance_latents, latent_name) IN
         IF Require("state_probabilities", latent_data,
                    "missing_state_probabilities", latent_name) # NoExc
         THEN Require("state_probabilities", latent_data,
                      "missing_state_probabilities", latent_name)
         ELSE IF Require("justification", latent_data,
                         "missing_justification", latent_name) # NoExc
         THEN Require("justification", latent_data,
                      "missing_justification", latent_name)
         ELSE IF Subscript(latent_data, "state_probabilities", latent_name) # NoExc
         THEN Subscript(latent_data, "state_probabilities", latent_name)
         ELSE validate_probability_dict(Lookup(latent_data, "state_probabilities"),
                                        DefaultTolerance, latent_name)

RECURSIVE CheckLatents(_, _, _)
\* lines 175-185: the loop over the template's latents
CheckLatents(instance_latents, names, i) ==
    IF i > Len(names) THEN NoExc
    ELSE IF CheckLatent(instance_latents, names[i]) # NoExc
    THEN CheckLatent(instance_latents, names[i])
    ELSE CheckLatents(instance_latents, names, i + 1)

\* lines 188-194
CheckAnswer(answer_posterior) ==
    IF Require("option_probabilities", answer_posterior,
               "missing_option_probabilities", "answer_posterior") # NoExc
    THEN Require("option_probabilities", answer_posterior,
                 "missing_option_probabilities", "answer_posterior")
    ELSE IF Require("selected_answer", answer_posterior,
                    "missing_selected_answer", "answer_posterior") # NoExc
    THEN Require("selected_answer", answer_posterior,
                 "missing_selected_answer", "answer_posterior")
    ELSE IF Subscript(answer_posterior, "option_probabilities", "answer_posterior") # NoExc
    THEN Subscript(answer_posterior, "option_probabilities", "answer_posterior")
    ELSE validate_probability_dict(Lookup(answer_posterior, "option_probabilities"),
                                   DefaultTolerance, "answer_posterior")

\* faulty variant: `isinstance(options, list)` without `and options`
MembershipChecked_ListOnly(options) == options.k = "arr"

\* `isinstance(options, list) and options`
MembershipChecked(options) == options.k = "arr" /\ Truthy(options)

\* `selected not in options` for a list
NotInList(selected, options) ==
    \A i \in 1..Len(options.items) : options.items[i].val # selected

\* lines 197-201
CheckSelected(inst) ==
    LET observed == PyGet(inst, "observed", Obj(<<>>)).val
        got      == PyGet(observed, "options", Null)
        selected == Lookup(Lookup(inst, "answer_posterior"), "selected_answer")
    IN IF got.type # "ok" THEN Exc(got.type, "get", "observed")
       ELSE IF MembershipChecked(got.val) /\ NotInList(selected, got.val)
       THEN Exc("ValueError", "selected_not_in_options", "observed")
       ELSE NoExc

\* faulty variant: the answer posterior is checked before the latents
validate_vpgm_instance_against_template_AnswerFirst(inst, tmpl) ==
    IF CheckTopLevel(inst, 1) # NoExc THEN CheckTopLevel(inst, 1)
    ELSE IF CheckTemplateId(inst, tmpl) # NoExc THEN CheckTemplateId(inst, tmpl)
    ELSE IF CheckAnswer(Lookup(inst, "answer_posterior")) # NoExc
    THEN CheckAnswer(Lookup(inst, "answer_posterior"))
    ELSE IF CheckLatents(Lookup(inst, "latent_posteriors"), TemplateLatents(tmpl), 1) # NoExc
    THEN CheckLatents(Lookup(inst, "latent_posteriors"), TemplateLatents(tmpl), 1)
    ELSE CheckSelected(inst)

\* NoExc when the instance is accepted, else the exception raised
validate_vpgm_instance_against_template(inst, tmpl) ==
    IF CheckTopLevel(inst, 1) # NoExc THEN CheckTopLevel(inst, 1)
    ELSE IF CheckTemplateId(inst, tmpl) # NoExc THEN CheckTemplateId(inst, tmpl)
    ELSE IF CheckLatents(Lookup(inst, "latent_posteriors"), TemplateLatents(tmpl), 1) # NoExc
    THEN CheckLatents(Lookup(inst, "latent_posteriors"), TemplateLatents(tmpl), 1)
    ELSE IF CheckAnswer(Lookup(inst, "answer_posterior")) # NoExc
    THEN CheckAnswer(Lookup(inst, "answer_posterior"))
    ELSE CheckSelected(inst)

-----------------------------------------------------------------------------
(* JSON text: json.dumps and json.loads *)

Tok(c, str, num) == [c |-> c, s |-> str, n |-> num]

Punct(c) == Tok(c, "", 0)

\* one or more whitespace characters
Ws == Tok("ws", "", 0)

\* a run of prose characters that are neither whitespace, brackets nor quotes
Word(w) == Tok("word", w, 0)

RECURSIVE Dumps(_), DumpItems(_, _)
\* json.dumps(v) with the default separators ", " and ": "
Dumps(v) ==
    CASE v.k = "null" -> <<Tok("null", "", 0)>>
      [] v.k = "str"  -> <<Tok("str", v.s, 0)>>
      [] v.k = "num"  -> <<Tok("num", "", v.n)>>
      [] v.k = "arr"  -> <<Punct("[")>> \o DumpItems(v, 1) \o <<Punct("]")>>
      [] OTHER        -> <<Punct("{")>> \o DumpItems(v, 1) \o <<Punct("}")>>

\* the items of a container from the i-th on, with their separators
DumpItems(v, i) ==
    IF i > Len(v.items) THEN <<>>
    ELSE (IF i > 1 THEN <<Punct(","), Ws>> ELSE <<>>)
         \o (IF v.k = "obj"
             THEN <<Tok("str", v.items[i].key, 0), Punct(":"), Ws>>
             ELSE <<>>)
         \o Dumps(v.items[i].val)
         \o DumpItems(v, i + 1)

ParseFail == [ok |-> FALSE, val |-> Null, next |-> 0]

ParseOk(val, next) == [ok |-> TRUE, val |-> val, next |-> next]

RECURSIVE SkipWs(_, _)
\* the first position from i on that holds no whitespace
SkipWs(t, i) ==
    IF i <= Len(t) /\ t[i].c = "ws" THEN SkipWs(t, i + 1) ELSE i

At(t, i) == IF i <= Len(t) THEN t[i].c ELSE "eof"

\* dict[key] = val: a repeated key keeps its place and takes the last value
Put(members, key, val) ==
    IF \E i \in 1..Len(members) : members[i].key = key
    THEN [i \in 1..Len(members) |->
            IF members[i].key = key THEN Pair(key, val) ELSE members[i]]
    ELSE Append(members, Pair(key, val))

RECURSIVE ParseValue(_, _), ParseElems(_, _, _), ParseMembers(_, _, _)
\* the JSON value starting at position i (whitespace already skipped)
ParseValue(t, i) ==
    CASE At(t, i) = "null" -> ParseOk(Null, i + 1)
      [] At(t, i) = "str"  -> ParseOk(Str(t[i].s), i + 1)
      [] At(t, i) = "num"  -> ParseOk(Num(t[i].n), i + 1)
      [] At(t, i) = "["    ->
            IF At(t, SkipWs(t, i + 1)) = "]"
            THEN ParseOk(Arr(<<>>), SkipWs(t, i + 1) + 1)
            ELSE ParseElems(t, SkipWs(t, i + 1), <<>>)
      [] At(t, i) = "{"    ->
            IF At(t, SkipWs(t, i + 1)) = "}"
            THEN ParseOk(Obj(<<>>), SkipWs(t, i + 1) + 1)
            ELSE ParseMembers(t, SkipWs(t, i + 1), <<>>)
      [] OTHER             -> ParseFail

\* the elements of an array from position i on, up to its "]"
ParseElems(t, i, acc) ==
    LET r == ParseValue(t, i)
        j == SkipWs(t, r.next)
    IN IF ~r.ok THEN ParseFail
       ELSE IF At(t, j) = ","
       THEN ParseElems(t, SkipWs(t, j + 1), Append(acc, r.val))
       ELSE IF At(t, j) = "]"
       THEN ParseOk(Arr(Append(acc, r.val)), j + 1)
       ELSE ParseFail

\* the members of an object from position i on, up to its "}"
ParseMembers(t, i, acc) ==
    LET c == SkipWs(t, i + 1)
        r == ParseValue(t, SkipWs(t, c + 1))
        j == SkipWs(t, r.next)
    IN IF At(t, i) # "str" \/ At(t, c) # ":" THEN ParseFail
       ELSE IF ~r.ok THEN ParseFail
       ELSE IF At(t, j) = ","
       THEN ParseMembers(t, SkipWs(t, j + 1), Put(acc, t[i].s, r.val))
       ELSE IF At(t, j) = "}"
       THEN ParseOk(Obj(Put(acc, t[i].s, r.val)), j + 1)
       ELSE ParseFail

\* json.loads(t) of a str: one value, whitespace around it, nothing else
json_loads(t) ==
    LET r == ParseValue(t, SkipWs(t, 1)) IN
    IF r.ok /\ SkipWs(t, r.next) > Len(t)
    THEN [ok |-> TRUE, val |-> r.val]
    ELSE [ok |-> FALSE, val |-> Null]

-----------------------------------------------------------------------------
(* extract_json_from_text, parse_vpgm_instance *)

\* what the oracle hands back: a str, or None (a message without content)
Text(toks) == [none |-> FALSE, toks |-> toks]

NoneText == [none |-> TRUE, toks |-> <<>>]

\* str.find(c): the first position holding c, 0 for Python's -1
Find(t, c) ==
    IF \E i \in 1..Len(t) : t[i].c = c
    THEN CHOOSE i \in 1..Len(t) :
            t[i].c = c /\ \A j \in 1..(i - 1) : t[j].c # c
    ELSE 0

\* faulty variant: find() where rfind() is meant
RFind_AsFind(t, c) == Find(t, c)

\* str.rfind(c): the last position holding c, 0 for Python's -1
RFind(t, c) ==
    IF \E i \in 1..Len(t) : t[i].c = c
    THEN CHOOSE i \in 1..Len(t) :
            t[i].c = c /\ \A j \in (i + 1)..Len(t) : t[j].c # c
    ELSE 0

\* faulty variant: the candidate is returned without being parsed
extract_json_from_text_Unchecked(raw) ==
    LET start_idx == Find(raw.toks, "{")
        end_idx   == RFind(raw.toks, "}")
        candidate == SubSeq(raw.toks, start_idx, end_idx)
    IN IF raw.none
       THEN [exc |-> Exc("TypeError", "json_loads_none", "extract"), text |-> <<>>]
       ELSE IF json_loads(raw.toks).ok
       THEN [exc |-> NoExc, text |-> raw.toks]
       ELSE IF start_idx = 0 \/ end_idx = 0 \/ start_idx > end_idx
       THEN [exc |-> Exc("ValueError", "no_json_object", "extract"), text |-> <<>>]
       ELSE [exc |-> NoExc, text |-> candidate]

\* the text returned, or the exception raised
extract_json_from_text(raw) ==
    LET start_idx == Find(raw.toks, "{")
        end_idx   == RFind(raw.toks, "}")
        candidate == SubSeq(raw.toks, start_idx, end_idx)
    IN IF raw.none
       THEN [exc |-> Exc("TypeError", "json_loads_none", "extract"), text |-> <<>>]
       ELSE IF json_loads(raw.toks).ok
       THEN [exc |-> NoExc, text |-> raw.toks]
       ELSE IF start_idx = 0 \/ end_idx = 0 \/ start_idx > end_idx
       THEN [exc |-> Exc("ValueError", "no_json_object", "extract"), text |-> <<>>]
       ELSE IF json_loads(candidate).ok
       THEN [exc |-> NoExc, text |-> candidate]
       ELSE [exc |-> Exc("ValueError", "not_valid_json", "extract"), text |-> <<>>]

\* the structure returned, or the exception raised
parse_vpgm_instance(raw) ==
    LET e == extract_json_from_text(raw) IN
    IF e.exc # NoExc THEN [exc |-> e.exc, val |-> Null]
    ELSE [exc |-> NoExc, val |-> json_loads(e.text).val]

-----------------------------------------------------------------------------
(* get_template_by_id *)

\* what `for t in templates_list` goes through: the elements of a list, the
\* keys of a dict, the characters of a str (a str of the model is atomic:
\* one str when it is not empty)
Iterated(v) ==
    CASE v.k = "arr" -> v.items
      [] v.k = "obj" -> [i \in 1..Len(v.items) |-> Pair("", Str(v.items[i].key))]
      [] v.k = "str" -> IF v.s = "" THEN <<>> ELSE <<Pair("", Str(v.s))>>
      [] OTHER       -> <<>>

\* iter(v) raises TypeError for None and for a number
Iterable(v) == v.k \in {"arr", "obj", "str"}

RECURSIVE FirstWithId(_, _, _)
\* the for loop over templates_list: the position of the first entry whose
\* id equals tid, 0 when the loop ends without one, -1 when t.get raises
\* AttributeError on an entry that is no dict before one is found
FirstWithId(templates_list, tid, i) ==
    IF i > Len(templates_list) THEN 0
    ELSE IF PyGet(templates_list[i].val, "id", Null).type # "ok" THEN -1
    ELSE IF PyGet(templates_list[i].val, "id", Null).val = tid THEN i
    ELSE FirstWithId(templates_list, tid, i + 1)

\* faulty variant: the first template as a default when none matches
get_template_by_id_FirstAsDefault(doc, tid) ==
    LET templates_list == PyGet(doc, "templates", Arr(<<>>)).val.items
        i == FirstWithId(templates_list, tid, 1)
    IN IF i = 0 /\ Len(templates_list) = 0
       THEN [exc |-> Exc("ValueError", "template_not_found", "resolve"), val |-> Null]
       ELSE [exc |-> NoExc, val |-> templates_list[IF i = 0 THEN 1 ELSE i].val]

\* str.lower() on the ids of the model
Lower(v) == IF v = Str("T") THEN Str("t") ELSE v

RECURSIVE FirstWithIdLower(_, _, _)
FirstWithIdLower(templates_list, tid, i) ==
    IF i > Len(templates_list) THEN 0
    ELSE IF PyGet(templates_list[i].val, "id", Null).type # "ok" THEN -1
    ELSE IF Lower(PyGet(templates_list[i].val, "id", Null).val) = Lower(tid) THEN i
    ELSE FirstWithIdLower(templates_list, tid, i + 1)

\* faulty variant: ids are compared without regard to case
get_template_by_id_IgnoreCase(doc, tid) ==
    LET got == PyGet(doc, "templates", Arr(<<>>)).val
        templates_list == Iterated(got)
        i == FirstWithIdLower(templates_list, tid, 1)
    IN IF ~Iterable(got)
       THEN [exc |-> Exc("TypeError", "not_iterable", "resolve"), val |-> Null]
       ELSE IF i = -1
       THEN [exc |-> Exc("AttributeError", "no_get", "resolve"), val |-> Null]
       ELSE IF i = 0
       THEN [exc |-> Exc("ValueError", "template_not_found", "resolve"), val |-> Null]
       ELSE [exc |-> NoExc, val |-> templates_list[i].val]

\* the template returned, or the exception raised: the ValueError of line
\* 45, or what Python raises when the "templates" value cannot be iterated
\* or an entry met before the match is no dict
get_template_by_id(doc, tid) ==
    LET got == PyGet(doc, "templates", Arr(<<>>)).val
        templates_list == Iterated(got)
        i == FirstWithId(templates_list, tid, 1)
    IN IF ~Iterable(got)
       THEN [exc |-> Exc("TypeError", "not_iterable", "resolve"), val |-> Null]
       ELSE IF i = -1
       THEN [exc |-> Exc("AttributeError", "no_get", "resolve"), val |-> Null]
       ELSE IF i = 0
       THEN [exc |-> Exc("ValueError", "template_not_found", "resolve"), val |-> Null]
       ELSE [exc |-> NoExc, val |-> templates_list[i].val]

-----------------------------------------------------------------------------
(* build_vpgm_prompt *)

RECURSIVE Pretty(_), PrettyItems(_, _)
\* pretty(obj): json.dumps(obj, indent=2), every item on a line of its own
Pretty(v) ==
    CASE v.k \in {"null", "str", "num"} -> Dumps(v)
      [] Len(v.items) = 0 -> Dumps(v)
      [] v.k = "arr" -> <<Punct("["), Ws>> \o PrettyItems(v, 1) \o <<Ws, Punct("]")>>
      [] OTHER       -> <<Punct("{"), Ws>> \o PrettyItems(v, 1) \o <<Ws, Punct("}")>>

PrettyItems(v, i) ==
    IF i > Len(v.items) THEN <<>>
    ELSE (IF i > 1 THEN <<Punct(","), Ws>> ELSE <<>>)
         \o (IF v.k = "obj"
             THEN <<Tok("str", v.items[i].key, 0), Punct(":"), Ws>>
             ELSE <<>>)
         \o Pretty(v.items[i].val)
         \o PrettyItems(v, i + 1)

\* "\n".join(prompt_parts): the fixed headings and the four rendered parts
build_vpgm_prompt(skel, tmpl) ==
    <<Word("preamble"), Ws, Word("task"), Ws, Word("observed_data"), Ws>>
    \o Pretty(PyGet(skel, "observed", Obj(<<>>)).val)
    \o <<Ws, Word("metadata"), Ws>>
    \o Pretty(PyGet(skel, "question_meta", Obj(<<>>)).val)
    \o <<Ws, Word("latent_variable_instructions"), Ws>>
    \o Pretty(PyGet(tmpl, "verbal_cpd_templates", Obj(<<>>)).val)
    \o <<Ws, Word("output_format"), Ws>>
    \o Pretty(PyGet(tmpl, "instance_fields", Obj(<<>>)).val)
    \o <<Ws, Word("your_output"), Ws, Word("produce_only_valid_json")>>

-----------------------------------------------------------------------------
(* the inputs the model draws from *)

\* a probability mapping over the states x, y, ...
Dist(values) ==
    Obj([i \in 1..Len(values) |-> Pair(<<"x", "y", "z", "u", "v">>[i], values[i])])

GoodDist == Dist(<<Num(600), Num(400)>>)

\* the mappings the instances are built from: well-formed ones, ones on
\* either side of the tolerance, and each way of being ill-formed
CoreDists ==
    { GoodDist,
      Dist(<<Num(999)>>),
      Dist(<<Num(998)>>),
      Dist(<<Num(250), Num(250)>>),
      Dist(<<Num(0 - 1), Num(1001)>>),
      Obj(<<>>),
      Arr(<<Num(1000)>>) }

LatentEntry(sp) ==
    Obj(<<Pair("state_probabilities", sp), Pair("justification", Str("r"))>>)

\* latent_posteriors of an instance, for a template declaring L1 and L2
LatentVariants ==
    { Obj(<<Pair("L1", LatentEntry(d)), Pair("L2", LatentEntry(GoodDist))>>) : d \in CoreDists }
    \cup
    { Obj(<<Pair("L1", LatentEntry(GoodDist)), Pair("L2", LatentEntry(Dist(<<Num(250)>>)))>>),
      Obj(<<Pair("L1", LatentEntry(GoodDist))>>),
      Obj(<<>>),
      Obj(<<Pair("L1", Obj(<<Pair("justification", Str("r"))>>)),
            Pair("L2", LatentEntry(GoodDist))>>),
      Obj(<<Pair("L1", Obj(<<Pair("state_probabilities", GoodDist)>>)),
            Pair("L2", LatentEntry(GoodDist))>>),
      Obj(<<Pair("L1", Obj(<<Pair("state_probabilities", GoodDist)>>)),
            Pair("L2", LatentEntry(Dist(<<Num(250)>>)))>>),
      Obj(<<Pair("L1", LatentEntry(Dist(<<Num(250)>>)))>>),
      \* an entry the template does not declare
      Obj(<<Pair("L1", LatentEntry(GoodDist)), Pair("L2", LatentEntry(GoodDist)),
            Pair("LX", LatentEntry(Dist(<<Num(200)>>)))>>),
      Obj(<<Pair("L1", LatentEntry(GoodDist)), Pair("L2", LatentEntry(GoodDist)),
            Pair("LX", LatentEntry(GoodDist))>>),
      \* not mappings
      Obj(<<Pair("L1", Arr(<<Str("state_probabilities"), Str("justification")>>)),
            Pair("L2", LatentEntry(GoodDist))>>),
      Arr(<<Str("L1"), Str("L2")>>),
      Null }

Answer(op, sel) ==
    Obj(<<Pair("option_probabilities", op), Pair("selected_answer", sel)>>)

AnswerVariants ==
    { Answer(d, Str("A")) : d \in CoreDists }
    \cup
    { Answer(Dist(<<Num(700), Num(300)>>), Str("Fish")),
      Answer(Dist(<<Num(250), Num(250)>>), Str("Fish")),
      Answer(GoodDist, Null),
      Obj(<<Pair("selected_answer", Str("A"))>>),
      Obj(<<Pair("option_probabilities", GoodDist)>>),
      Arr(<<Str("option_probabilities"), Str("selected_answer")>>),
      Null }

Observed(options) == Obj(<<Pair("question_text", Str("q")), Pair("options", options)>>)

ObservedVariants ==
    { Observed(Arr(<<Str("A"), Str("B")>>)),
      Observed(Arr(<<Str("Dog"), Str("Cat")>>)),
      Observed(Arr(<<>>)),
      Observed(Str("A")),                       \* options is no list
      Obj(<<Pair("question_text", Str("q"))>>), \* options absent
      Null }                                    \* observed is no mapping

TemplateIds == { Str("T"), Str("U"), Str(""), Null }

MkInstance(tid, obs, lat, ans) ==
    Obj(<<Pair("template_id", tid), Pair("question_meta", Obj(<<>>)),
          Pair("observed", obs), Pair("latent_posteriors", lat),
          Pair("answer_posterior", ans)>>)

GoodLatents ==
    Obj(<<Pair("L1", LatentEntry(GoodDist)), Pair("L2", LatentEntry(GoodDist))>>)

GoodAnswer == Answer(Dist(<<Num(700), Num(300)>>), Str("A"))

GoodObserved == Observed(Arr(<<Str("A"), Str("B")>>))

GoodInstance == MkInstance(Str("T"), GoodObserved, GoodLatents, GoodAnswer)

\* a second acceptable instance, different from the first
OtherInstance ==
    MkInstance(Str("T"), GoodObserved, GoodLatents,
               Answer(Dist(<<Num(300), Num(700)>>), Str("B")))

\* v without its member `key`
Without(v, key) ==
    Obj(SelectSeq(v.items, LAMBDA m : m.key # key))

\* parsed replies that are not five-key objects
OddInstances ==
    { Without(GoodInstance, required_keys[i]) : i \in 1..Len(required_keys) }
    \cup
    { Arr([i \in 1..Len(required_keys) |-> Str(required_keys[i])]),
      Arr(<<GoodInstance>>),
      Str("template_id"),
      Num(1000),
      Null }

\* the instances the validator is applied to
Instances ==
    { MkInstance(tid, obs, lat, ans) :
        tid \in TemplateIds, obs \in ObservedVariants,
        lat \in LatentVariants, ans \in AnswerVariants }
    \cup OddInstances

InstanceFields(members) ==
    Obj(members \o
        <<Pair("question_meta", Obj(<<>>)), Pair("observed", Obj(<<>>)),
          Pair("latent_posteriors", Obj(<<Pair("L1", Obj(<<>>)), Pair("L2", Obj(<<>>))>>)),
          Pair("answer_posterior", Obj(<<>>))>>)

Cpds == Obj(<<Pair("L1", Str("cpd1")), Pair("L2", Str("cpd2"))>>)

\* a template with its own id
Tmpl(id, embedded) ==
    Obj(<<Pair("id", id), Pair("verbal_cpd_templates", Cpds),
          Pair("instance_fields", InstanceFields(<<Pair("template_id", embedded)>>))>>)

\* the templates the validator is applied to
Templates ==
    { Tmpl(Str("T"), Str("T")),
      Tmpl(Str("U"), Str("T")),      \* own id differs from the embedded one
      Tmpl(Str(""), Str("T")),       \* own id is the empty string
      Tmpl(Null, Str("T")),          \* own id is null
      \* no id of its own
      Obj(<<Pair("verbal_cpd_templates", Cpds),
            Pair("instance_fields", InstanceFields(<<Pair("template_id", Str("T"))>>))>>),
      \* own id empty, no embedded id
      Obj(<<Pair("id", Str("")), Pair("instance_fields", InstanceFields(<<>>))>>),
      \* no instance_fields at all
      Obj(<<Pair("id", Str("T")), Pair("verbal_cpd_templates", Cpds)>>),
      Obj(<<Pair("verbal_cpd_templates", Cpds)>>) }

\* the template documents: a list, a list with a repeated id, an empty list,
\* and a document without a list
Doc(templates) == Obj(<<Pair("templates", Arr(templates))>>)

TmplOnlyL1 ==
    Obj(<<Pair("id", Str("T")), Pair("verbal_cpd_templates", Cpds),
          Pair("instance_fields",
               Obj(<<Pair("template_id", Str("T")),
                     Pair("latent_posteriors", Obj(<<Pair("L1", Obj(<<>>))>>))>>))>>)

Docs ==
    { Doc(<<Tmpl(Str("U"), Str("U")), Tmpl(Str("T"), Str("T"))>>),
      Doc(<<Tmpl(Str("T"), Str("T")), TmplOnlyL1>>),
      Doc(<<>>),
      Obj(<<>>) }

RequestedIds == { Str("T"), Str("Z") }

Skeletons ==
    { MkInstance(Str("T"), Observed(Arr(<<Str("A"), Str("B")>>)), Obj(<<>>), Obj(<<>>)),
      MkInstance(Str("T"), Observed(Arr(<<Str("Dog"), Str("Cat")>>)), Obj(<<>>), Obj(<<>>)) }

\* the most attempts a run is configured with
MaxRetries == 3

\* the longest delay a run is configured with, in seconds
MaxSleepSeconds == 2

\* retry_sleep_seconds when the caller passes none: 1.0
DefaultRetrySleepSeconds == 1

\* what the oracle may answer: acceptable instances bare and wrapped in
\* prose, instances failing one check, JSON that is no object, text without
\* JSON, and no content at all
Replies ==
    { Text(Dumps(GoodInstance)),
      Text(<<Word("Here"), Ws>> \o Dumps(OtherInstance) \o <<Ws, Word("done")>>),
      Text(<<Punct("[")>> \o Dumps(GoodInstance) \o <<Punct("]")>>),
      Text(Dumps(MkInstance(Str("T"), GoodObserved, GoodLatents,
                            Answer(Dist(<<Num(250), Num(250)>>), Str("A"))))),
      Text(Dumps(MkInstance(Str("T"), GoodObserved, GoodLatents,
                            Answer(Dist(<<Num(700), Num(300)>>), Str("Fish"))))),
      Text(Dumps(MkInstance(Str("U"), GoodObserved, GoodLatents, GoodAnswer))),
      Text(Dumps(MkInstance(Str("T"), Null, GoodLatents, GoodAnswer))),
      Text(Dumps(Num(1000))),
      Text(<<Word("no"), Ws, Word("json"), Ws, Word("here")>>),
      Text(<<Word("see"), Ws, Punct("{"), Word("x"), Punct("}")>>),
      NoneText }

-----------------------------------------------------------------------------
(* infer_vpgm_for_skeleton *)

NoOutcome == [kind |-> "none", value |-> Null, exc |-> NoExc, cause |-> NoExc]

Returned(value) == [kind |-> "return", value |-> value, exc |-> NoExc, cause |-> NoExc]

\* a raised exception; cause is the error a RuntimeError's message quotes
Raised(e, cause) == [kind |-> "raise", value |-> Null, exc |-> e, cause |-> cause]

Init ==
    /\ pc = "resolve"
    /\ template_full \in Docs
    /\ template_id \in RequestedIds
    /\ skeleton \in Skeletons
    /\ max_retries \in 0..MaxRetries
    /\ retry_sleep_seconds \in 1..MaxSleepSeconds
    /\ template = Null
    /\ prompt = <<>>
    /\ attempt = 0
    /\ raw_output = NoneText
    /\ instance = Null
    /\ exc = NoExc
    /\ last_error = NoExc
    /\ outcome = NoOutcome
    /\ calls = 0
    /\ in_flight = 0
    /\ sleeps = <<>>
    /\ prompts = <<>>
    /\ trace = <<>>
    /\ fn_in = Null
    /\ fn_out = Null

\* lines 228-231: resolve the template, compile the prompt; an unknown id
\* raises out of the function
Resolve ==
    /\ pc = "resolve"
    /\ LET r == get_template_by_id(template_full, template_id) IN
       IF r.exc # NoExc
       THEN /\ pc' = "raised"
            /\ outcome' = Raised(r.exc, NoExc)
            /\ UNCHANGED <<template, prompt>>
       ELSE /\ pc' = "loop"
            /\ template' = r.val
            /\ prompt' = build_vpgm_prompt(skeleton, r.val)
            /\ UNCHANGED outcome
    /\ UNCHANGED <<retry_sleep_seconds, template_full, template_id, skeleton, max_retries, attempt,
                   raw_output, instance, exc, last_error, calls, in_flight,
                   sleeps, prompts, trace, fn_in, fn_out>>

\* faulty variant: one attempt too many
HasAttemptLeft_OffByOne(att, budget) == att <= budget

\* line 233: range(max_retries) yields another attempt
HasAttemptLeft(att, budget) == att < budget

\* faulty variant: the previous attempt's error is appended to the prompt
Invoke_PromptDrift ==
    /\ pc = "loop"
    /\ HasAttemptLeft(attempt, max_retries)
    /\ pc' = "invoking"
    /\ calls' = calls + 1
    /\ in_flight' = in_flight + 1
    /\ prompts' = Append(prompts, IF last_error = NoExc THEN prompt
                                  ELSE prompt \o <<Ws, Word(last_error.msg)>>)
    /\ UNCHANGED <<retry_sleep_seconds, template_full, template_id, skeleton, max_retries, template,
                   prompt, attempt, raw_output, instance, exc, last_error,
                   outcome, sleeps, trace, fn_in, fn_out>>

\* lines 233-235: the loop has an attempt left and calls the oracle
Invoke ==
    /\ pc = "loop"
    /\ HasAttemptLeft(attempt, max_retries)
    /\ pc' = "invoking"
    /\ calls' = calls + 1
    /\ in_flight' = in_flight + 1
    /\ prompts' = Append(prompts, prompt)
    /\ UNCHANGED <<retry_sleep_seconds, template_full, template_id, skeleton, max_retries, template,
                   prompt, attempt, raw_output, instance, exc, last_error,
                   outcome, sleeps, trace, fn_in, fn_out>>

\* line 59: call_llm_with_prompt returns the reply
OracleReturns ==
    /\ pc = "invoking"
    /\ \E reply \in Replies : raw_output' = reply
    /\ in_flight' = in_flight - 1
    /\ pc' = "extracting"
    /\ UNCHANGED <<retry_sleep_seconds, template_full, template_id, skeleton, max_retries, template,
                   prompt, attempt, instance, exc, last_error, outcome, calls,
                   sleeps, prompts, trace, fn_in, fn_out>>

\* faulty variant: the failed call is given up while still in flight
OracleFails_LeavesCallInFlight ==
    /\ pc = "invoking"
    /\ in_flight' = in_flight
    /\ exc' = Exc("RuntimeError", "llm_call_failed", "oracle")
    /\ pc' = "except"
    /\ UNCHANGED <<retry_sleep_seconds, template_full, template_id, skeleton,
                   max_retries, template, prompt, attempt, raw_output, instance,
                   last_error, outcome, calls, sleeps, prompts, trace, fn_in,
                   fn_out>>

\* lines 60-61: call_llm_with_prompt raises RuntimeError
OracleFails ==
    /\ pc = "invoking"
    /\ in_flight' = in_flight - 1
    /\ exc' = Exc("RuntimeError", "llm_call_failed", "oracle")
    /\ pc' = "except"
    /\ UNCHANGED <<retry_sleep_seconds, template_full, template_id, skeleton, max_retries, template,
                   prompt, attempt, raw_output, instance, last_error, outcome,
                   calls, sleeps, prompts, trace, fn_in, fn_out>>

\* parse_vpgm_instance is a pure function of the reply text: its value on each
\* text the oracle can return, computed once.
ParsedReplies == [reply \in Replies |-> parse_vpgm_instance(reply)]

\* line 236: parse_vpgm_instance(raw_output)
Parse ==
    /\ pc = "extracting"
    /\ LET r == ParsedReplies[raw_output] IN
       IF r.exc # NoExc
       THEN /\ exc' = r.exc
            /\ pc' = "except"
            /\ UNCHANGED instance
       ELSE /\ instance' = r.val
            /\ pc' = "validating"
            /\ UNCHANGED exc
    /\ UNCHANGED <<retry_sleep_seconds, template_full, template_id, skeleton, max_retries, template,
                   prompt, attempt, raw_output, last_error, outcome, calls,
                   in_flight, sleeps, prompts, trace, fn_in, fn_out>>

\* faulty variant: the skeleton's observed is written into what is returned
Validate_FillsSkeleton ==
    /\ pc = "validating"
    /\ LET v == validate_vpgm_instance_against_template(instance, template) IN
       IF v # NoExc
       THEN /\ exc' = [v EXCEPT !.at = "validate"]
            /\ pc' = "except"
            /\ UNCHANGED <<outcome, trace>>
       ELSE /\ outcome' = Returned(Obj(Put(instance.items, "observed",
                                           Lookup(skeleton, "observed"))))
            /\ pc' = "returned"
            /\ trace' = Append(trace, "ok")
            /\ UNCHANGED exc
    /\ UNCHANGED <<retry_sleep_seconds, template_full, template_id, skeleton, max_retries, template,
                   prompt, attempt, raw_output, instance, last_error, calls,
                   in_flight, sleeps, prompts, fn_in, fn_out>>

\* faulty variant: an instance with the wrong template_id is repaired in
\* place and checked again
Validate_RepairsTemplateId ==
    /\ pc = "validating"
    /\ LET v == validate_vpgm_instance_against_template(instance, template) IN
       IF v # NoExc /\ v.msg = "template_id_mismatch"
       THEN /\ instance' = Obj(Put(instance.items, "template_id",
                                   PyGet(template, "id", Null).val))
            /\ UNCHANGED <<pc, exc, outcome, trace>>
       ELSE IF v # NoExc
       THEN /\ exc' = [v EXCEPT !.at = "validate"]
            /\ pc' = "except"
            /\ UNCHANGED <<instance, outcome, trace>>
       ELSE /\ outcome' = Returned(instance)
            /\ pc' = "returned"
            /\ trace' = Append(trace, "ok")
            /\ UNCHANGED <<instance, exc>>
    /\ UNCHANGED <<retry_sleep_seconds, template_full, template_id, skeleton, max_retries, template,
                   prompt, attempt, raw_output, last_error, calls,
                   in_flight, sleeps, prompts, fn_in, fn_out>>

\* lines 237-238: validate, and return the instance when it passes
Validate ==
    /\ pc = "validating"
    /\ LET v == validate_vpgm_instance_against_template(instance, template) IN
       IF v # NoExc
       THEN /\ exc' = [v EXCEPT !.at = "validate"]
            /\ pc' = "except"
            /\ UNCHANGED <<outcome, trace>>
       ELSE /\ outcome' = Returned(instance)
            /\ pc' = "returned"
            /\ trace' = Append(trace, "ok")
            /\ UNCHANGED exc
    /\ UNCHANGED <<retry_sleep_seconds, template_full, template_id, skeleton, max_retries, template,
                   prompt, attempt, raw_output, instance, last_error, calls,
                   in_flight, sleeps, prompts, fn_in, fn_out>>

\* faulty variant: the handler sleeps after the last attempt too
SleepsAfter_Always(att, budget) == att < budget

\* line 241: whether the handler sleeps before the next attempt
SleepsAfter(att, budget) == att < budget - 1

\* faulty variant: after a failed validation the same reply is extracted
\* again instead of a new call being made
Except_ReparseReply ==
    /\ pc = "except"
    /\ last_error' = exc
    /\ sleeps' = IF SleepsAfter(attempt, max_retries)
                 THEN Append(sleeps, retry_sleep_seconds) ELSE sleeps
    /\ trace' = Append(trace, exc.at)
    /\ attempt' = attempt + 1
    /\ exc' = NoExc
    /\ pc' = IF exc.at = "validate" /\ attempt + 1 < max_retries
             THEN "extracting" ELSE "loop"
    /\ UNCHANGED <<retry_sleep_seconds, template_full, template_id, skeleton, max_retries, template,
                   prompt, raw_output, instance, outcome, calls, in_flight,
                   prompts, fn_in, fn_out>>

\* faulty variant: `except ValueError`, so that any other error leaves the
\* function as it is
Except_OnlyValueError ==
    /\ pc = "except"
    /\ IF exc.type = "ValueError"
       THEN /\ last_error' = exc
            /\ sleeps' = IF SleepsAfter(attempt, max_retries)
                         THEN Append(sleeps, retry_sleep_seconds) ELSE sleeps
            /\ trace' = Append(trace, exc.at)
            /\ attempt' = attempt + 1
            /\ exc' = NoExc
            /\ pc' = "loop"
            /\ UNCHANGED outcome
       ELSE /\ outcome' = Raised(exc, NoExc)
            /\ pc' = "raised"
            /\ UNCHANGED <<last_error, sleeps, trace, attempt, exc>>
    /\ UNCHANGED <<retry_sleep_seconds, template_full, template_id, skeleton, max_retries, template,
                   prompt, raw_output, instance, calls, in_flight,
                   prompts, fn_in, fn_out>>

\* lines 239-242: the handler keeps the error, sleeps unless this was the
\* last attempt, and the loop moves on
Except ==
    /\ pc = "except"
    /\ last_error' = exc
    /\ sleeps' = IF SleepsAfter(attempt, max_retries)
                 THEN Append(sleeps, retry_sleep_seconds) ELSE sleeps
    /\ trace' = Append(trace, exc.at)
    /\ attempt' = attempt + 1
    /\ exc' = NoExc
    /\ pc' = "loop"
    /\ UNCHANGED <<retry_sleep_seconds, template_full, template_id, skeleton, max_retries, template,
                   prompt, raw_output, instance, outcome, calls, in_flight,
                   prompts, fn_in, fn_out>>

\* faulty variant: with no attempt left the loop waits instead of raising
Exhausted_Waits ==
    /\ pc = "loop"
    /\ ~HasAttemptLeft(attempt, max_retries)
    /\ UNCHANGED vars

\* line 244: the loop is over without a return
Exhausted ==
    /\ pc = "loop"
    /\ ~HasAttemptLeft(attempt, max_retries)
    /\ outcome' = Raised(Exc("RuntimeError", "inference_failed", "exhausted"), last_error)
    /\ pc' = "raised"
    /\ UNCHANGED <<retry_sleep_seconds, template_full, template_id, skeleton, max_retries, template,
                   prompt, attempt, raw_output, instance, exc, last_error, calls,
                   in_flight, sleeps, prompts, trace, fn_in, fn_out>>

Next ==
    \/ Resolve
    \/ Invoke
    \/ OracleReturns
    \/ OracleFails
    \/ Parse
    \/ Validate
    \/ Except
    \/ Exhausted

Spec == Init /\ [][Next]_vars

\* The run is sequential code that keeps executing, and a call of
\* call_llm_with_prompt eventually returns or raises.
SpecLive ==
    /\ Spec
    /\ WF_vars(Resolve \/ Invoke \/ Parse \/ Validate \/ Except \/ Exhausted)
    /\ WF_vars(OracleReturns \/ OracleFails)

-----------------------------------------------------------------------------
(* The validator and the probability check as functions of their arguments: *)
(* every argument is drawn at the start, one step applies the function.     *)

\* the orchestrator's variables, unused while a function is applied alone
NoRun ==
    /\ template_full = Null
    /\ template_id = Null
    /\ skeleton = Null
    /\ max_retries = 0
    /\ retry_sleep_seconds = DefaultRetrySleepSeconds
    /\ template = Null
    /\ prompt = <<>>
    /\ attempt = 0
    /\ raw_output = NoneText
    /\ instance = Null
    /\ exc = NoExc
    /\ last_error = NoExc
    /\ outcome = NoOutcome
    /\ calls = 0
    /\ in_flight = 0
    /\ sleeps = <<>>
    /\ prompts = <<>>
    /\ trace = <<>>

\* the most entries of a probability mapping drawn entry by entry
MaxEntries == 2

\* values an entry may hold: around 0, around 1/2, around 1, and non-numbers
ProbValues ==
    { Num(0 - 1), Num(0), Num(1), Num(499), Num(500), Num(501), Num(999),
      Num(1000), Num(1001), Str("half"), Null }

RECURSIVE SeqsUpTo(_, _)
\* the sequences over S of length at most n
SeqsUpTo(S, n) ==
    IF n = 0 THEN { <<>> }
    ELSE SeqsUpTo(S, n - 1)
         \cup { Append(q, x) : q \in { r \in SeqsUpTo(S, n - 1) : Len(r) = n - 1 }, x \in S }

\* the arguments of validate_probability_dict
ProbMaps ==
    { Dist(q) : q \in SeqsUpTo(ProbValues, MaxEntries) }
    \cup { Arr(<<Num(1000)>>), Arr(<<>>), Str("x"), Str(""), Num(1000), Num(0), Null }

Tolerances == { 0, DefaultTolerance, 2 }

InitValidator ==
    /\ NoRun
    /\ fn_out = NoExc
    /\ \/ /\ pc = "call_prob"
          /\ fn_in \in { [probs |-> m, tolerance |-> t] : m \in ProbMaps, t \in Tolerances }
       \/ /\ pc = "call_validate"
          /\ fn_in \in { [inst |-> i, tmpl |-> t] : i \in Instances, t \in Templates }

\* validate_probability_dict(probs, tolerance)
ApplyProb ==
    /\ pc = "call_prob"
    /\ fn_out' = validate_probability_dict(fn_in.probs, fn_in.tolerance, "")
    /\ pc' = "prob_done"
    /\ UNCHANGED <<retry_sleep_seconds, template_full, template_id, skeleton, max_retries, template,
                   prompt, attempt, raw_output, instance, exc, last_error,
                   outcome, calls, in_flight, sleeps, prompts, trace, fn_in>>

\* validate_vpgm_instance_against_template(instance, template)
ApplyValidate ==
    /\ pc = "call_validate"
    /\ fn_out' = validate_vpgm_instance_against_template(fn_in.inst, fn_in.tmpl)
    /\ pc' = "validated"
    /\ UNCHANGED <<retry_sleep_seconds, template_full, template_id, skeleton, max_retries, template,
                   prompt, attempt, raw_output, instance, exc, last_error,
                   outcome, calls, in_flight, sleeps, prompts, trace, fn_in>>

NextValidator ==
    \/ ApplyProb
    \/ ApplyValidate

SpecValidator == InitValidator /\ [][NextValidator]_vars

-----------------------------------------------------------------------------
(* The extractor as a function of the reply: prose, json.dumps(X), prose.   *)

\* the most tokens of prose before and after the JSON
MaxProse == 2

ProseToks == { Word("w"), Ws, Punct("{"), Punct("}"), Punct("["), Punct("]") }

Prose == SeqsUpTo(ProseToks, MaxProse)

\* acceptable instances to embed
Embedded == { GoodInstance, OtherInstance }

InitExtract ==
    /\ NoRun
    /\ fn_out = [exc |-> NoExc, val |-> Null]
    /\ pc = "call_parse"
    /\ fn_in \in { [P |-> a, X |-> x, S |-> b] : a \in Prose, x \in Embedded, b \in Prose }

\* parse_vpgm_instance(P + json.dumps(X) + S)
ApplyParse ==
    /\ pc = "call_parse"
    /\ fn_out' = parse_vpgm_instance(Text(fn_in.P \o Dumps(fn_in.X) \o fn_in.S))
    /\ pc' = "parsed"
    /\ UNCHANGED <<retry_sleep_seconds, template_full, template_id, skeleton, max_retries, template,
                   prompt, attempt, raw_output, instance, exc, last_error,
                   outcome, calls, in_flight, sleeps, prompts, trace, fn_in>>

NextExtract == ApplyParse

SpecExtract == InitExtract /\ [][NextExtract]_vars

-----------------------------------------------------------------------------
(* extract_json_from_text on its own, applied to any short text.            *)

\* the most tokens of a text given to the extractor
MaxText == 3

TextToks == { Word("no"), Ws, Punct("{"), Punct("}"), Tok("num", "", 1) }

\* short texts of any shape, and an instance with a token around it
RawTexts ==
    { Text(t) : t \in SeqsUpTo(TextToks, MaxText) }
    \cup { Text(a \o Dumps(x) \o b) :
             a \in SeqsUpTo(TextToks, 1), x \in Embedded, b \in SeqsUpTo(TextToks, 1) }

InitExtractText ==
    /\ NoRun
    /\ fn_out = [exc |-> NoExc, text |-> <<>>]
    /\ pc = "call_extract"
    /\ fn_in \in { [raw |-> r] : r \in RawTexts }

\* extract_json_from_text(raw_output)
ApplyExtract ==
    /\ pc = "call_extract"
    /\ fn_out' = extract_json_from_text(fn_in.raw)
    /\ pc' = "extracted"
    /\ UNCHANGED <<retry_sleep_seconds, template_full, template_id, skeleton, max_retries, template,
                   prompt, attempt, raw_output, instance, exc, last_error,
                   outcome, calls, in_flight, sleeps, prompts, trace, fn_in>>

NextExtractText == ApplyExtract

SpecExtractText == InitExtractText /\ [][NextExtractText]_vars

-----------------------------------------------------------------------------
(* get_template_by_id on its own, applied to any short document.            *)

\* the most entries of a template list
MaxTemplates == 3

\* entries of a list: two templates with the id "T", ids that differ from
\* it in case or by a suffix, a null id, no id, and an entry that is no dict
Entries ==
    { Tmpl(Str("T"), Str("T")), TmplOnlyL1, Tmpl(Str("t"), Str("T")),
      Tmpl(Str("T2"), Str("T")), Tmpl(Null, Str("T")),
      Obj(<<Pair("verbal_cpd_templates", Cpds)>>), Str("T") }

\* documents with a list, without one, and with a value that is no list
ResolveDocs ==
    { Doc(l) : l \in SeqsUpTo(Entries, MaxTemplates) }
    \cup { Obj(<<>>),
           Obj(<<Pair("templates", Null)>>),
           Obj(<<Pair("templates", Str(""))>>),
           Obj(<<Pair("templates", Tmpl(Str("T"), Str("T")))>>) }

ResolveIds == { Str("T"), Str("t"), Str("T2"), Str("Z") }

InitResolve ==
    /\ NoRun
    /\ fn_out = [exc |-> NoExc, val |-> Null]
    /\ pc = "call_resolve"
    /\ fn_in \in { [doc |-> d, tid |-> t] : d \in ResolveDocs, t \in ResolveIds }

\* get_template_by_id(template, template_id)
ApplyResolve ==
    /\ pc = "call_resolve"
    /\ fn_out' = get_template_by_id(fn_in.doc, fn_in.tid)
    /\ pc' = "resolved"
    /\ UNCHANGED <<retry_sleep_seconds, template_full, template_id, skeleton, max_retries, template,
                   prompt, attempt, raw_output, instance, exc, last_error,
                   outcome, calls, in_flight, sleeps, prompts, trace, fn_in>>

NextResolve == ApplyResolve

SpecResolve == InitResolve /\ [][NextResolve]_vars

-----------------------------------------------------------------------------
(* infer_vpgm_for_instances: the per-skeleton run applied to a list.  The   *)
(* list and the position of the loop are in fn_in, the results collected so *)
(* far, a record of every finished run and the outcome of the batch in      *)
(* fn_out.                                                                  *)

\* max_retries of infer_vpgm_for_skeleton when the caller passes none
DefaultMaxRetries == 3

\* the longest list of skeletons a batch is given
MaxBatch == 2

\* what load_prompt_template() may hand back: a document holding the
\* requested template, or one that does not
BatchDocs ==
    { Doc(<<Tmpl(Str("U"), Str("U")), Tmpl(Str("T"), Str("T"))>>), Doc(<<>>) }

\* what is kept of a finished run
RunRecord == [skeleton |-> skeleton, outcome |-> outcome]

InitBatch ==
    /\ pc = "batch_loop"
    /\ template_full \in BatchDocs
    /\ template_id \in RequestedIds
    /\ skeleton = Null
    /\ max_retries = DefaultMaxRetries
    /\ retry_sleep_seconds = DefaultRetrySleepSeconds
    /\ template = Null
    /\ prompt = <<>>
    /\ attempt = 0
    /\ raw_output = NoneText
    /\ instance = Null
    /\ exc = NoExc
    /\ last_error = NoExc
    /\ outcome = NoOutcome
    /\ calls = 0
    /\ in_flight = 0
    /\ sleeps = <<>>
    /\ prompts = <<>>
    /\ trace = <<>>
    /\ fn_in \in { [skeletons |-> q, next |-> 1] : q \in SeqsUpTo(Skeletons, MaxBatch) }
    /\ fn_out = [results |-> <<>>, runs |-> <<>>, outcome |-> NoOutcome]

\* lines 265, 272-277: the loop takes the next skeleton and calls
\* infer_vpgm_for_skeleton on it, with the default max_retries
CallSkeleton ==
    /\ pc = "batch_loop"
    /\ fn_in.next <= Len(fn_in.skeletons)
    /\ skeleton' = fn_in.skeletons[fn_in.next]
    /\ pc' = "resolve"
    /\ template' = Null
    /\ prompt' = <<>>
    /\ attempt' = 0
    /\ raw_output' = NoneText
    /\ instance' = Null
    /\ exc' = NoExc
    /\ last_error' = NoExc
    /\ outcome' = NoOutcome
    /\ calls' = 0
    /\ in_flight' = 0
    /\ sleeps' = <<>>
    /\ prompts' = <<>>
    /\ trace' = <<>>
    /\ UNCHANGED <<retry_sleep_seconds, template_full, template_id, max_retries, fn_in, fn_out>>

\* faulty variant: a failed run is skipped and the loop goes on
PropagateFailure_SkipFailed ==
    /\ pc = "raised"
    /\ fn_out' = [fn_out EXCEPT !.runs = Append(@, RunRecord)]
    /\ fn_in' = [fn_in EXCEPT !.next = @ + 1]
    /\ pc' = "batch_loop"
    /\ UNCHANGED <<retry_sleep_seconds, template_full, template_id, skeleton, max_retries, template,
                   prompt, attempt, raw_output, instance, exc, last_error,
                   outcome, calls, in_flight, sleeps, prompts, trace>>

\* line 272: infer_vpgm_for_skeleton raises; nothing catches it, the batch
\* ends with that exception
PropagateFailure ==
    /\ pc = "raised"
    /\ fn_out' = [fn_out EXCEPT !.runs = Append(@, RunRecord), !.outcome = outcome]
    /\ pc' = "batch_raised"
    /\ UNCHANGED <<retry_sleep_seconds, template_full, template_id, skeleton, max_retries, template,
                   prompt, attempt, raw_output, instance, exc, last_error,
                   outcome, calls, in_flight, sleeps, prompts, trace, fn_in>>

\* line 278: results.append(instance), and the loop moves on
AppendResult ==
    /\ pc = "returned"
    /\ fn_out' = [fn_out EXCEPT !.runs = Append(@, RunRecord),
                                !.results = Append(@, outcome.value)]
    /\ fn_in' = [fn_in EXCEPT !.next = @ + 1]
    /\ pc' = "batch_loop"
    /\ UNCHANGED <<retry_sleep_seconds, template_full, template_id, skeleton, max_retries, template,
                   prompt, attempt, raw_output, instance, exc, last_error,
                   outcome, calls, in_flight, sleeps, prompts, trace>>

\* line 280: the loop is over, the list is returned
ReturnResults ==
    /\ pc = "batch_loop"
    /\ fn_in.next > Len(fn_in.skeletons)
    /\ fn_out' = [fn_out EXCEPT !.outcome = Returned(Arr(fn_out.results))]
    /\ pc' = "batch_returned"
    /\ UNCHANGED <<retry_sleep_seconds, template_full, template_id, skeleton, max_retries, template,
                   prompt, attempt, raw_output, instance, exc, last_error,
                   outcome, calls, in_flight, sleeps, prompts, trace, fn_in>>

NextBatch ==
    \/ CallSkeleton
    \/ Resolve
    \/ Invoke
    \/ OracleReturns
    \/ OracleFails
    \/ Parse
    \/ Validate
    \/ Except
    \/ Exhausted
    \/ AppendResult
    \/ PropagateFailure
    \/ ReturnResults

SpecBatch == InitBatch /\ [][NextBatch]_vars

-----------------------------------------------------------------------------
(* server.run_inference: one "run inference" request.  The dataset and the  *)
(* requested id are in fn_in, the response and the number of calls of       *)
(* infer_vpgm_for_skeleton in fn_out.                                       *)

\* a request id: its text, and what text.split("_") gives
SqaId(text, parts) == [text |-> text, parts |-> parts]

\* int(s): the number, or "ValueError"
PyInt(s) ==
    CASE s = "0"  -> [type |-> "ok", val |-> 0]
      [] s = "1"  -> [type |-> "ok", val |-> 1]
      [] s = "01" -> [type |-> "ok", val |-> 1]
      [] s = "2"  -> [type |-> "ok", val |-> 2]
      [] s = "-1" -> [type |-> "ok", val |-> 0 - 1]
      [] OTHER    -> [type |-> "ValueError", val |-> 0]

\* str(v) for a str or None
PyStr(v) == IF v.k = "str" THEN v.s ELSE "None"

RECURSIVE SearchById(_, _, _)
\* the fallback loop of get_example_by_id: the first example whose id or
\* qid, as a str, is the requested text; None when there is none
SearchById(ds, text, i) ==
    IF i > Len(ds) THEN Null
    ELSE IF PyStr(PyGet(ds[i], "id", Null).val) = text
            \/ PyStr(PyGet(ds[i], "qid", Null).val) = text
    THEN ds[i]
    ELSE SearchById(ds, text, i + 1)

\* get_example_by_id(sqa_id) over STATE["dataset"]
get_example_by_id(ds, sqa_id) ==
    LET startswith_idx == Len(sqa_id.parts) >= 2 /\ sqa_id.parts[1] = "idx"
        idx == PyInt(sqa_id.parts[2])
    IN IF startswith_idx /\ idx.type = "ok" /\ 0 <= idx.val /\ idx.val < Len(ds)
       THEN ds[idx.val + 1]
       ELSE SearchById(ds, sqa_id.text, 1)

\* build_scienceqa_skeleton(ex, template_id, template, override_id=sqa_id)
build_scienceqa_skeleton(ex, override_id) ==
    LET id == PyGet(ex, "id", Null).val
        qid == PyGet(ex, "qid", Null).val
        sqa_id == IF id # Null THEN PyStr(id)
                  ELSE IF qid # Null THEN PyStr(qid)
                  ELSE override_id
        choices == PyGet(ex, "choices", Arr(<<>>)).val
        options == IF choices.k = "arr" THEN choices ELSE Arr(<<>>)
    IN Obj(<<Pair("template_id", Str("T")),
             Pair("question_meta", Obj(<<Pair("scienceqa_id", Str(sqa_id))>>)),
             Pair("observed", Observed(options)),
             Pair("latent_posteriors", Obj(<<>>)),
             Pair("answer_posterior", Obj(<<>>))>>)

\* a dataset row, with or without an id of its own
Example(members, choices) ==
    Obj(members \o <<Pair("question", Str("q")), Pair("choices", choices)>>)

\* STATE["dataset"]: rows without ids (as ScienceQA has them), rows with an
\* id or a qid, and no rows
Datasets ==
    { << Example(<<>>, Arr(<<Str("A"), Str("B")>>)),
         Example(<<>>, Arr(<<Str("Dog"), Str("Cat")>>)) >>,
      << Example(<<Pair("id", Str("q7"))>>, Arr(<<Str("A"), Str("B")>>)),
         Example(<<Pair("qid", Str("q8"))>>, Arr(<<Str("Dog"), Str("Cat")>>)) >>,
      << >> }

\* the ids requested
SqaIds ==
    { SqaId("idx_0", <<"idx", "0">>),
      SqaId("idx_1", <<"idx", "1">>),
      SqaId("idx_2", <<"idx", "2">>),
      SqaId("idx_-1", <<"idx", "-1">>),
      SqaId("idx_x", <<"idx", "x">>),
      SqaId("idx_", <<"idx", "">>),
      SqaId("idx_1_7", <<"idx", "1", "7">>),
      SqaId("idx_01", <<"idx", "01">>),
      SqaId("q7", <<"q7">>),
      SqaId("q8", <<"q8">>),
      SqaId("q9", <<"q9">>),
      SqaId("None", <<"None">>) }

NoResponse == [status |-> 0, body |-> Null, detail |-> NoOutcome]

InitServer ==
    /\ pc = "request"
    /\ template_full \in BatchDocs
    /\ template_id = Str("T")
    /\ skeleton = Null
    /\ max_retries = DefaultMaxRetries
    /\ retry_sleep_seconds = DefaultRetrySleepSeconds
    /\ template = Null
    /\ prompt = <<>>
    /\ attempt = 0
    /\ raw_output = NoneText
    /\ instance = Null
    /\ exc = NoExc
    /\ last_error = NoExc
    /\ outcome = NoOutcome
    /\ calls = 0
    /\ in_flight = 0
    /\ sleeps = <<>>
    /\ prompts = <<>>
    /\ trace = <<>>
    /\ fn_in \in { [dataset |-> ds, sqa_id |-> id] : ds \in Datasets, id \in SqaIds }
    /\ fn_out = [response |-> NoResponse, invocations |-> 0]

\* lines 134-148: look the record up; answer 404 when there is none, else
\* build the skeleton and call infer_vpgm_for_skeleton
RunInference ==
    /\ pc = "request"
    /\ LET ex == get_example_by_id(fn_in.dataset, fn_in.sqa_id) IN
       IF ~Truthy(ex)
       THEN /\ fn_out' = [fn_out EXCEPT !.response =
                            [status |-> 404, body |-> Null, detail |-> NoOutcome]]
            /\ pc' = "responded"
            /\ UNCHANGED skeleton
       ELSE /\ skeleton' = build_scienceqa_skeleton(ex, fn_in.sqa_id.text)
            /\ fn_out' = [fn_out EXCEPT !.invocations = @ + 1]
            /\ pc' = "resolve"
    /\ UNCHANGED <<retry_sleep_seconds, template_full, template_id, max_retries, template, prompt,
                   attempt, raw_output, instance, exc, last_error, outcome,
                   calls, in_flight, sleeps, prompts, trace, fn_in>>

\* line 156: the instance is the response
RespondResult ==
    /\ pc = "returned"
    /\ fn_out' = [fn_out EXCEPT !.response =
                    [status |-> 200, body |-> outcome.value, detail |-> NoOutcome]]
    /\ pc' = "responded"
    /\ UNCHANGED <<retry_sleep_seconds, template_full, template_id, skeleton, max_retries, template,
                   prompt, attempt, raw_output, instance, exc, last_error,
                   outcome, calls, in_flight, sleeps, prompts, trace, fn_in>>

\* lines 158-160: any exception of the run becomes a 500 whose detail is
\* str(e)
RespondFailure ==
    /\ pc = "raised"
    /\ fn_out' = [fn_out EXCEPT !.response =
                    [status |-> 500, body |-> Null, detail |-> outcome]]
    /\ pc' = "responded"
    /\ UNCHANGED <<retry_sleep_seconds, template_full, template_id, skeleton, max_retries, template,
                   prompt, attempt, raw_output, instance, exc, last_error,
                   outcome, calls, in_flight, sleeps, prompts, trace, fn_in>>

NextServer ==
    \/ RunInference
    \/ Resolve
    \/ Invoke
    \/ OracleReturns
    \/ OracleFails
    \/ Parse
    \/ Validate
    \/ Except
    \/ Exhausted
    \/ RespondResult
    \/ RespondFailure

SpecServer == InitServer /\ [][NextServer]_vars

-----------------------------------------------------------------------------
(* Properties *)

RECURSIVE SumValues(_, _)
\* the sum of the values of the entries from the i-th on
SumValues(items, i) ==
    IF i > Len(items) THEN 0 ELSE items[i].val.n + SumValues(items, i + 1)

\* m is a probability distribution: a non-empty mapping of numbers in [0,1]
\* that sum to 1 within tol
WellFormed(m, tol) ==
    /\ m.k = "obj"
    /\ Len(m.items) > 0
    /\ \A i \in 1..Len(m.items) :
          m.items[i].val.k = "num" /\ 0 <= m.items[i].val.n /\ m.items[i].val.n <= One
    /\ One - tol <= SumValues(m.items, 1)
    /\ SumValues(m.items, 1) <= One + tol

\* the latent names a template declares under instance_fields.latent_posteriors
Declared(t) ==
    IF HasKey(t, "instance_fields")
       /\ HasKey(Lookup(t, "instance_fields"), "latent_posteriors")
    THEN Keys(Lookup(Lookup(t, "instance_fields"), "latent_posteriors"))
    ELSE <<>>

\* v has the shape the template asks for
Complete(v, t) ==
    /\ v.k = "obj"
    /\ \A key \in {"template_id", "question_meta", "observed", "latent_posteriors",
                   "answer_posterior"} : HasKey(v, key)
    /\ Lookup(v, "template_id") = Lookup(t, "id")
    /\ Lookup(v, "latent_posteriors").k = "obj"
    /\ \A j \in 1..Len(Declared(t)) :
          /\ HasKey(Lookup(v, "latent_posteriors"), Declared(t)[j])
          /\ HasKey(Lookup(Lookup(v, "latent_posteriors"), Declared(t)[j]),
                    "state_probabilities")
          /\ HasKey(Lookup(Lookup(v, "latent_posteriors"), Declared(t)[j]),
                    "justification")
    /\ Lookup(v, "answer_posterior").k = "obj"
    /\ HasKey(Lookup(v, "answer_posterior"), "option_probabilities")
    /\ HasKey(Lookup(v, "answer_posterior"), "selected_answer")

AllFailed == \A i \in 1..Len(trace) : trace[i] \in {"oracle", "extract", "validate"}

IsExhausted == outcome.kind = "raise" /\ outcome.exc.at = "exhausted"

IsNotFound == outcome.kind = "raise" /\ outcome.exc.msg = "template_not_found"

\* C1: an instance is returned only from the attempt that parsed it and
\* found it valid: it is the structure parsed from that attempt's reply, the
\* validator accepts it against the resolved template, and it has the five
\* top-level keys, the template's id, every declared latent with
\* state_probabilities and justification, and an answer_posterior with
\* option_probabilities and selected_answer.
C1_ReturnedInstanceIsValidated ==
    outcome.kind = "return" =>
        /\ pc = "returned"
        /\ outcome.value = instance
        /\ parse_vpgm_instance(raw_output) = [exc |-> NoExc, val |-> instance]
        /\ trace[Len(trace)] = "ok"
        /\ validate_vpgm_instance_against_template(outcome.value, template) = NoExc
        /\ Complete(outcome.value, template)

\* C1 witness: an instance returned on a retry, from a reply wrapped in prose
C1_Witness ==
    /\ pc = "returned"
    /\ attempt > 0
    /\ outcome.value = OtherInstance
    /\ Len(Declared(template)) = 2

\* C2: once max_retries attempts have all failed, exactly max_retries oracle
\* calls have been made, no instance has been returned, no further call can
\* start and the run ends in the exhausted-retries failure; that failure is
\* raised in no other situation.
C2_RetryExhaustion ==
    /\ (template # Null /\ AllFailed /\ Len(trace) = max_retries) =>
          /\ calls = max_retries
          /\ outcome.kind # "return"
          /\ \/ pc = "loop" /\ ENABLED Exhausted /\ ~ENABLED Invoke
             \/ pc = "raised" /\ IsExhausted
    /\ IsExhausted =>
          /\ calls = max_retries
          /\ AllFailed
          /\ Len(trace) = max_retries
          /\ pc = "raised"

\* C2 witness: three attempts failing at the three gates, then the failure
C2_Witness ==
    /\ IsExhausted
    /\ calls = 3
    /\ trace = <<"oracle", "extract", "validate">>

\* C3: when an instance is returned, the attempt that returned it is the
\* first that passed, the number of oracle calls is its number, nothing can
\* follow, and the value is exactly the structure parsed from that attempt's
\* reply.
C3_FirstPassingAttemptReturns ==
    pc = "returned" =>
        /\ outcome.kind = "return"
        /\ calls = attempt + 1
        /\ calls = Len(trace)
        /\ calls <= max_retries
        /\ trace[calls] = "ok"
        /\ \A i \in 1..(calls - 1) : trace[i] # "ok"
        /\ in_flight = 0
        /\ ~ENABLED Next
        /\ outcome.value = json_loads(extract_json_from_text(raw_output).text).val
        /\ raw_output = Text(Dumps(GoodInstance)) => outcome.value = GoodInstance
        /\ raw_output.toks[1] = Word("Here") => outcome.value = OtherInstance

\* C3 witness: the third reply is the first acceptable one
C3_Witness ==
    /\ pc = "returned"
    /\ calls = 3
    /\ outcome.value = OtherInstance
    /\ Lookup(skeleton, "observed") # Lookup(outcome.value, "observed")

\* no entry of the document's template list has the requested id
NoEntryMatches ==
    \/ ~HasKey(template_full, "templates")
    \/ \A i \in 1..Len(Lookup(template_full, "templates").items) :
          LET t == Lookup(template_full, "templates").items[i].val IN
          ~HasKey(t, "id") \/ Lookup(t, "id") # template_id

\* C4: when no entry has the requested id the run fails with the not-found
\* ValueError itself, with no oracle call, no sleep and no attempt; and that
\* error is raised in no other case.
C4_UnknownTemplateFailsFirst ==
    /\ NoEntryMatches =>
          /\ calls = 0 /\ sleeps = <<>> /\ in_flight = 0 /\ attempt = 0 /\ trace = <<>>
          /\ \/ pc = "resolve" /\ outcome = NoOutcome
             \/ /\ pc = "raised"
                /\ outcome = Raised(Exc("ValueError", "template_not_found", "resolve"), NoExc)
                /\ ~ENABLED Next
    /\ IsNotFound => NoEntryMatches

\* C4 witness: a document with templates, none of them the requested one
C4_Witness ==
    /\ IsNotFound
    /\ max_retries > 0
    /\ HasKey(template_full, "templates")
    /\ Len(Lookup(template_full, "templates").items) = 2

\* C5 as claimed: the exhausted-retries failure follows max_retries failed
\* attempts and wraps the error of the last of them, never an absent one.
C5_ExhaustedWrapsLastError ==
    IsExhausted =>
        /\ calls = max_retries
        /\ Len(trace) = max_retries
        /\ AllFailed
        /\ outcome.cause # NoExc
        /\ outcome.cause.type \in {"RuntimeError", "ValueError", "TypeError",
                                   "AttributeError", "KeyError"}
        /\ outcome.cause.at = trace[Len(trace)]

NoOpening(toks) == \A i \in 1..Len(toks) : toks[i].c \notin {"{", "["}

NoClosingBrace(toks) == \A i \in 1..Len(toks) : toks[i].c # "}"

\* C6 as claimed: whatever the prose around it, the instance is recovered.
C6_RoundTripAnyProse ==
    pc = "parsed" => fn_out = [exc |-> NoExc, val |-> fn_in.X]

\* C6 amended: when the leading prose holds no '{' and no '[' and the
\* trailing prose holds no '}', parsing P + json.dumps(X) + S succeeds and
\* yields a structure equal to X.
C6_RoundTripPlainProse ==
    (pc = "parsed" /\ NoOpening(fn_in.P) /\ NoClosingBrace(fn_in.S)) =>
        fn_out = [exc |-> NoExc, val |-> fn_in.X]

\* C6 witness: an instance recovered from between two pieces of prose
C6_Witness ==
    /\ pc = "parsed"
    /\ fn_in.P = <<Word("w"), Ws>>
    /\ fn_in.S = <<Ws, Word("w")>>
    /\ fn_out.val = GoodInstance

\* the messages of validate_probability_dict
ProbMsgs == {"empty", "items", "not_a_number", "out_of_range", "sum"}

\* the mapping a diagnosis of the validator is about
MappingAt(inst, at) ==
    IF at = "answer_posterior"
    THEN Lookup(Lookup(inst, "answer_posterior"), "option_probabilities")
    ELSE Lookup(Lookup(Lookup(inst, "latent_posteriors"), at), "state_probabilities")

\* C7: validate_probability_dict(M, tolerance) passes exactly when M is a
\* non-empty mapping of numbers in [0,1] whose sum is within tolerance of 1;
\* and the validator applies that check, with the default tolerance, to the
\* state_probabilities of every declared latent and to option_probabilities:
\* an accepted instance passes it at each of them, and a rejection with one
\* of its messages is about a mapping that fails it.
C7_ProbabilityCheck ==
    /\ pc = "prob_done" =>
          (fn_out = NoExc <=> WellFormed(fn_in.probs, fn_in.tolerance))
    /\ (pc = "validated" /\ fn_out = NoExc) =>
          /\ \A j \in 1..Len(Declared(fn_in.tmpl)) :
                WellFormed(MappingAt(fn_in.inst, Declared(fn_in.tmpl)[j]), DefaultTolerance)
          /\ WellFormed(MappingAt(fn_in.inst, "answer_posterior"), DefaultTolerance)
    /\ (pc = "validated" /\ fn_out.msg \in ProbMsgs) =>
          /\ ~WellFormed(MappingAt(fn_in.inst, fn_out.at), DefaultTolerance)
          /\ fn_out = validate_probability_dict(MappingAt(fn_in.inst, fn_out.at),
                                                DefaultTolerance, fn_out.at)

\* C7 witness: a mapping summing to 1 - tolerance passes at the default tolerance
C7_Witness ==
    /\ pc = "prob_done"
    /\ fn_in.probs = Dist(<<Num(499), Num(500)>>)
    /\ fn_in.tolerance = DefaultTolerance
    /\ fn_out = NoExc

\* the three requirements on a probability mapping, one by one
NonEmptyInRangeSumsToOne(m) ==
    /\ m.k = "obj"
    /\ m.items # <<>>
    /\ \A i \in 1..Len(m.items) :
          m.items[i].val.k = "num" /\ m.items[i].val.n \in 0..One
    /\ Abs(SumValues(m.items, 1) - One) <= DefaultTolerance

\* C8 as claimed: in an accepted instance every state_probabilities under
\* latent_posteriors, and option_probabilities, is a distribution.
C8_EveryMappingIsDistribution ==
    (pc = "validated" /\ fn_out = NoExc) =>
        LET lat == Lookup(fn_in.inst, "latent_posteriors") IN
        /\ lat.k = "obj" =>
              \A i \in 1..Len(lat.items) :
                 (lat.items[i].val.k = "obj"
                  /\ HasKey(lat.items[i].val, "state_probabilities")) =>
                 NonEmptyInRangeSumsToOne(Lookup(lat.items[i].val, "state_probabilities"))
        /\ NonEmptyInRangeSumsToOne(MappingAt(fn_in.inst, "answer_posterior"))

\* C8 amended: in an accepted instance the state_probabilities of every
\* latent the template declares, and option_probabilities, is non-empty, has
\* every value in [0,1] and sums to 1 within the tolerance.
C8_DeclaredMappingsAreDistributions ==
    (pc = "validated" /\ fn_out = NoExc) =>
        /\ \A j \in 1..Len(Declared(fn_in.tmpl)) :
              NonEmptyInRangeSumsToOne(MappingAt(fn_in.inst, Declared(fn_in.tmpl)[j]))
        /\ NonEmptyInRangeSumsToOne(MappingAt(fn_in.inst, "answer_posterior"))

\* C8 witness: an accepted instance with two declared latents, one of them
\* at the edge of the tolerance
C8_Witness ==
    /\ pc = "validated"
    /\ fn_out = NoExc
    /\ Len(Declared(fn_in.tmpl)) = 2
    /\ MappingAt(fn_in.inst, "L1") = Dist(<<Num(999)>>)

\* observed.options of an instance; Null when there is none
OptionsOf(inst) ==
    IF inst.k = "obj" /\ HasKey(inst, "observed")
       /\ Lookup(inst, "observed").k = "obj"
       /\ HasKey(Lookup(inst, "observed"), "options")
    THEN Lookup(Lookup(inst, "observed"), "options")
    ELSE Null

NonEmptyList(v) == v.k = "arr" /\ Len(v.items) > 0

\* the checks before the membership check all pass
EarlierChecksPass(inst, tmpl) ==
    /\ CheckTopLevel(inst, 1) = NoExc
    /\ CheckTemplateId(inst, tmpl) = NoExc
    /\ CheckLatents(Lookup(inst, "latent_posteriors"), TemplateLatents(tmpl), 1) = NoExc
    /\ CheckAnswer(Lookup(inst, "answer_posterior")) = NoExc

\* C9: with observed.options a non-empty list, an instance whose
\* selected_answer is not one of its elements is rejected, for that reason
\* when every earlier check passes; with observed a mapping whose options
\* is empty, absent or not a list, an instance passing the earlier checks is
\* accepted whatever its selected_answer; and one whose selected_answer is
\* among the options is accepted too.
C9_SelectedAnswerMembership ==
    pc = "validated" =>
        LET opts == OptionsOf(fn_in.inst)
            earlier == EarlierChecksPass(fn_in.inst, fn_in.tmpl)
            sel == Lookup(Lookup(fn_in.inst, "answer_posterior"), "selected_answer")
        IN /\ (earlier /\ NonEmptyList(opts)
               /\ \A i \in 1..Len(opts.items) : opts.items[i].val # sel) =>
                  fn_out = Exc("ValueError", "selected_not_in_options", "observed")
           /\ (earlier /\ NonEmptyList(opts)
               /\ \E i \in 1..Len(opts.items) : opts.items[i].val = sel) =>
                  fn_out = NoExc
           /\ (earlier /\ ~NonEmptyList(opts)
               /\ Lookup(fn_in.inst, "observed").k = "obj") =>
                  fn_out = NoExc
           /\ (~earlier) => fn_out # NoExc

\* C9 witness: options ["Dog","Cat"], selected "Fish", all else well-formed
C9_Witness ==
    /\ pc = "validated"
    /\ EarlierChecksPass(fn_in.inst, fn_in.tmpl)
    /\ OptionsOf(fn_in.inst) = Arr(<<Str("Dog"), Str("Cat")>>)
    /\ Lookup(Lookup(fn_in.inst, "answer_posterior"), "selected_answer") = Str("Fish")
    /\ fn_out.msg = "selected_not_in_options"

\* the id the template has of its own, else the one embedded in
\* instance_fields, else none
OwnOrEmbeddedId(t) ==
    IF HasKey(t, "id") /\ Lookup(t, "id") # Null THEN Lookup(t, "id")
    ELSE IF HasKey(t, "instance_fields")
            /\ HasKey(Lookup(t, "instance_fields"), "template_id")
    THEN Lookup(Lookup(t, "instance_fields"), "template_id")
    ELSE Null

\* C10 as claimed: an accepted instance carries the template's own id, and
\* the embedded id only when the template has none of its own.
C10_TemplateIdIsOwnId ==
    (pc = "validated" /\ fn_out = NoExc) =>
        Lookup(fn_in.inst, "template_id") = OwnOrEmbeddedId(fn_in.tmpl)

-----------------------------------------------------------------------------
(* Prompt determinism *)

\* C11: every oracle invocation of a run receives the same prompt, and that
\* prompt is build_vpgm_prompt of the skeleton and the resolved template, a
\* function of these two alone: whatever replies and errors came before, the
\* prompt of the i-th call is the text compiled from the run's inputs.
C11_PromptDeterminism ==
    /\ Len(prompts) = calls
    /\ \A i \in 1..Len(prompts) :
          /\ prompts[i] = build_vpgm_prompt(skeleton, template)
          /\ prompts[i] = prompts[1]
    /\ template # Null =>
          /\ template = get_template_by_id(template_full, template_id).val
          /\ prompt = build_vpgm_prompt(skeleton, template)

\* C11 witness: a third call, after an extraction failure and a validation
\* failure, with the prompt of the first
C11_Witness ==
    /\ Len(prompts) = 3
    /\ trace = <<"extract", "validate">>
    /\ prompts[3] = prompts[1]
    /\ prompts[3] = build_vpgm_prompt(skeleton, template)

-----------------------------------------------------------------------------
(* The batch *)

\* positions of infer_vpgm_for_skeleton, entered from the batch loop
InRun == pc \in {"resolve", "loop", "invoking", "extracting", "validating",
                 "except", "returned", "raised"}

\* C12: the runs are made on the skeletons in list order, one at a time;
\* every result collected is the instance returned by the run on the skeleton
\* of the same position and passes the validator; the list is returned only
\* when every run returned, and then holds one result per skeleton; the first
\* run that raises ends the batch with that exception, no list is returned,
\* and no run, hence no oracle call, is made for a later skeleton.
C12_BatchInOrderAllOrNothing ==
    LET n == Len(fn_in.skeletons)
        k == fn_in.next
        runs == fn_out.runs
        results == fn_out.results
    IN /\ \A i \in 1..Len(runs) : runs[i].skeleton = fn_in.skeletons[i]
       /\ Len(results) <= Len(runs)
       /\ \A i \in 1..Len(results) :
             /\ runs[i].outcome = Returned(results[i])
             /\ validate_vpgm_instance_against_template(
                    results[i], get_template_by_id(template_full, template_id).val) = NoExc
       /\ InRun =>
             /\ k <= n
             /\ skeleton = fn_in.skeletons[k]
             /\ Len(runs) = k - 1
             /\ Len(results) = k - 1
             /\ fn_out.outcome = NoOutcome
             /\ \A i \in 1..Len(prompts) :
                   prompts[i] = build_vpgm_prompt(fn_in.skeletons[k], template)
       /\ pc = "raised" => ENABLED PropagateFailure /\ ~ENABLED CallSkeleton
       /\ pc = "batch_loop" => Len(runs) = k - 1 /\ Len(results) = k - 1
       /\ pc = "batch_returned" =>
             /\ fn_out.outcome = Returned(Arr(results))
             /\ Len(results) = n
             /\ Len(runs) = n
             /\ ~ENABLED NextBatch
       /\ pc = "batch_raised" =>
             /\ fn_out.outcome.kind = "raise"
             /\ fn_out.outcome.value = Null
             /\ Len(runs) = k
             /\ fn_out.outcome = runs[k].outcome
             /\ \A i \in 1..(k - 1) : runs[i].outcome.kind = "return"
             /\ Len(results) = k - 1
             /\ ~ENABLED NextBatch

\* C12 witness: of two different skeletons the first exhausts its attempts,
\* and the batch has ended without a run on the second
C12_Witness ==
    /\ pc = "batch_raised"
    /\ Len(fn_in.skeletons) = 2
    /\ fn_in.skeletons[1] # fn_in.skeletons[2]
    /\ fn_in.next = 1
    /\ calls = DefaultMaxRetries
    /\ fn_out.outcome.exc.at = "exhausted"
    /\ fn_out.results = <<>>

-----------------------------------------------------------------------------
(* The returned instance and the skeleton *)

\* C13 as claimed: a returned instance has the template_id, question_meta
\* and observed of the skeleton the prompt was compiled from, and its
\* selected_answer is among the skeleton's options.
C13_ReturnedInstanceExtendsSkeleton ==
    outcome.kind = "return" =>
        /\ \A key \in {"template_id", "question_meta", "observed"} :
              Lookup(outcome.value, key) = Lookup(skeleton, key)
        /\ \E i \in 1..Len(OptionsOf(skeleton).items) :
              OptionsOf(skeleton).items[i].val
                  = Lookup(Lookup(outcome.value, "answer_posterior"), "selected_answer")

-----------------------------------------------------------------------------
(* The serving boundary *)

\* the ids the question list hands out: "idx_<i>" for the i-th row
IdxNames == <<"idx_0", "idx_1", "idx_2">>

\* the requested id is that of a record: its position's name, or the id or
\* qid a row carries
KnownRecordId ==
    LET ds == fn_in.dataset
        text == fn_in.sqa_id.text
    IN \/ \E i \in 1..Len(ds) : text = IdxNames[i]
       \/ \E i \in 1..Len(ds) :
             \/ HasKey(ds[i], "id") /\ Lookup(ds[i], "id") = Str(text)
             \/ HasKey(ds[i], "qid") /\ Lookup(ds[i], "qid") = Str(text)

\* C14 as claimed: a request calls infer_vpgm_for_skeleton at most once, not
\* at all when the record id is unknown (the response is 404 and no oracle
\* call is made) and exactly once otherwise; the response is the validated
\* instance exactly when that run returned, and a 500 carrying the run's
\* exception when it raised.
C14_OneRunPerKnownRecord ==
    /\ fn_out.invocations <= 1
    /\ calls > 0 => fn_out.invocations = 1
    /\ pc = "responded" =>
          /\ ~KnownRecordId =>
                /\ fn_out.response.status = 404
                /\ fn_out.invocations = 0
                /\ calls = 0
          /\ KnownRecordId => fn_out.invocations = 1
          /\ fn_out.response.status = 200 <=> outcome.kind = "return"
          /\ fn_out.response.status = 200 =>
                /\ fn_out.response.body = outcome.value
                /\ validate_vpgm_instance_against_template(outcome.value, template) = NoExc
          /\ outcome.kind = "raise" =>
                /\ fn_out.response.status = 500
                /\ fn_out.response.detail = outcome
          /\ ~ENABLED NextServer

-----------------------------------------------------------------------------
(* The order of the validator's checks *)

\* the instance is a mapping, and so is every field the checks read into
WellShaped(inst, tmpl) ==
    /\ inst.k = "obj"
    /\ HasKey(inst, "latent_posteriors") =>
          /\ Lookup(inst, "latent_posteriors").k = "obj"
          /\ \A j \in 1..Len(Declared(tmpl)) :
                HasKey(Lookup(inst, "latent_posteriors"), Declared(tmpl)[j]) =>
                    Lookup(Lookup(inst, "latent_posteriors"), Declared(tmpl)[j]).k = "obj"
    /\ HasKey(inst, "answer_posterior") => Lookup(inst, "answer_posterior").k = "obj"
    /\ HasKey(inst, "observed") => Lookup(inst, "observed").k = "obj"

\* the number of the check a diagnosis belongs to; 0 for no diagnosis
CheckNo(e) ==
    CASE e = NoExc -> 0
      [] e.msg = "missing_top_level_key" -> 1
      [] e.msg = "template_id_mismatch" -> 2
      [] e.msg \in {"missing_latent", "missing_state_probabilities",
                    "missing_justification"} -> 3
      [] e.msg \in ProbMsgs /\ e.at # "answer_posterior" -> 4
      [] e.msg \in {"missing_option_probabilities", "missing_selected_answer"} -> 5
      [] e.msg \in ProbMsgs /\ e.at = "answer_posterior" -> 5
      [] e.msg = "selected_not_in_options" -> 6
      [] OTHER -> 7

\* check 1 is violated
MissesTopLevelKey(inst) ==
    \E i \in 1..Len(required_keys) : ~HasKey(inst, required_keys[i])

\* check 2 is violated
HasOtherTemplateId(inst, tmpl) == Lookup(inst, "template_id") # ExpectedId(tmpl)

\* check 3 is violated for the latent `name`
LatentIncomplete(inst, name) ==
    LET lat == Lookup(inst, "latent_posteriors") IN
    \/ ~HasKey(lat, name)
    \/ ~HasKey(Lookup(lat, name), "state_probabilities")
    \/ ~HasKey(Lookup(lat, name), "justification")

\* check 4 is violated for the latent `name`
LatentDistributionInvalid(inst, name) ==
    LET lat == Lookup(inst, "latent_posteriors") IN
    /\ HasKey(lat, name)
    /\ HasKey(Lookup(lat, name), "state_probabilities")
    /\ ~WellFormed(Lookup(Lookup(lat, name), "state_probabilities"), DefaultTolerance)

\* check 5 is violated
AnswerInvalid(inst) ==
    LET ans == Lookup(inst, "answer_posterior") IN
    \/ ~HasKey(ans, "option_probabilities")
    \/ ~HasKey(ans, "selected_answer")
    \/ ~WellFormed(Lookup(ans, "option_probabilities"), DefaultTolerance)

\* check 6 is violated
SelectedNotAnOption(inst) ==
    /\ NonEmptyList(OptionsOf(inst))
    /\ \A i \in 1..Len(OptionsOf(inst).items) :
          OptionsOf(inst).items[i].val
              # Lookup(Lookup(inst, "answer_posterior"), "selected_answer")

\* the lowest-numbered violated check, 3 before 4 over all latents
LowestViolated(inst, tmpl) ==
    CASE MissesTopLevelKey(inst) -> 1
      [] HasOtherTemplateId(inst, tmpl) -> 2
      [] \E j \in 1..Len(Declared(tmpl)) : LatentIncomplete(inst, Declared(tmpl)[j]) -> 3
      [] \E j \in 1..Len(Declared(tmpl)) :
            LatentDistributionInvalid(inst, Declared(tmpl)[j]) -> 4
      [] AnswerInvalid(inst) -> 5
      [] SelectedNotAnOption(inst) -> 6
      [] OTHER -> 0

\* the first declared latent with anything wrong; 0 when there is none
FirstBadLatent(inst, tmpl) ==
    LET bad == { j \in 1..Len(Declared(tmpl)) :
                    \/ LatentIncomplete(inst, Declared(tmpl)[j])
                    \/ LatentDistributionInvalid(inst, Declared(tmpl)[j]) }
    IN IF bad = {} THEN 0 ELSE CHOOSE j \in bad : \A i \in bad : j <= i

\* the first violated check, 3 and 4 taken latent by latent
FirstViolated(inst, tmpl) ==
    CASE MissesTopLevelKey(inst) -> 1
      [] HasOtherTemplateId(inst, tmpl) -> 2
      [] FirstBadLatent(inst, tmpl) # 0 ->
            IF LatentIncomplete(inst, Declared(tmpl)[FirstBadLatent(inst, tmpl)])
            THEN 3 ELSE 4
      [] AnswerInvalid(inst) -> 5
      [] SelectedNotAnOption(inst) -> 6
      [] OTHER -> 0

\* C15 as claimed: the diagnosis is that of the lowest-numbered violated
\* check, every check 3 before any check 4.
C15_LowestNumberedCheckReported ==
    (pc = "validated" /\ WellShaped(fn_in.inst, fn_in.tmpl)) =>
        CheckNo(fn_out) = LowestViolated(fn_in.inst, fn_in.tmpl)

\* C15 amended: the diagnosis is that of the first violated check in the
\* order 1, 2, then for each declared latent in template order its presence
\* and sub-fields (3) and its distribution (4), then 5, 6; a diagnosis of
\* check 3 or 4 is about the first declared latent with anything wrong.
C15_FirstCheckLatentByLatent ==
    (pc = "validated" /\ WellShaped(fn_in.inst, fn_in.tmpl)) =>
        /\ CheckNo(fn_out) = FirstViolated(fn_in.inst, fn_in.tmpl)
        /\ CheckNo(fn_out) \in {3, 4} =>
              fn_out.at = Declared(fn_in.tmpl)[FirstBadLatent(fn_in.inst, fn_in.tmpl)]

\* C15 witness: L1 has an invalid distribution, L2 is missing, and the
\* diagnosis is L1's distribution
C15_Witness ==
    /\ pc = "validated"
    /\ WellShaped(fn_in.inst, fn_in.tmpl)
    /\ Declared(fn_in.tmpl) = <<"L1", "L2">>
    /\ fn_out = Exc("ValueError", "sum", "L1")
    /\ LatentDistributionInvalid(fn_in.inst, "L1")
    /\ LatentIncomplete(fn_in.inst, "L2")

-----------------------------------------------------------------------------
(* The gates of an attempt *)

\* what one step of a run may do, gate by gate
GateStep ==
    /\ pc' = "invoking" =>
          pc = "loop" /\ calls' = calls + 1 /\ attempt' = attempt
    /\ pc = "invoking" => pc' \in {"extracting", "except"}
    /\ pc' = "extracting" =>
          /\ pc = "invoking"
          /\ raw_output' \in Replies
          /\ attempt' = attempt /\ calls' = calls
    /\ pc = "extracting" =>
          /\ calls = attempt + 1
          /\ raw_output' = raw_output
          /\ IF parse_vpgm_instance(raw_output).exc = NoExc
             THEN pc' = "validating" /\ instance' = parse_vpgm_instance(raw_output).val
             ELSE pc' = "except" /\ exc' = parse_vpgm_instance(raw_output).exc
    /\ pc' = "validating" => pc = "extracting" /\ attempt' = attempt /\ calls' = calls
    /\ pc = "validating" =>
          /\ calls = attempt + 1
          /\ instance = parse_vpgm_instance(raw_output).val
          /\ IF validate_vpgm_instance_against_template(instance, template) = NoExc
             THEN pc' = "returned" /\ outcome' = Returned(instance)
             ELSE pc' = "except" /\ exc' # NoExc
    /\ pc' = "except" =>
          pc \in {"invoking", "extracting", "validating"} /\ attempt' = attempt
    /\ pc = "except" =>
          /\ pc' = "loop"
          /\ attempt' = attempt + 1
          /\ calls' = calls
          /\ trace' = Append(trace, exc.at)
    /\ pc = "loop" =>
          IF attempt < max_retries THEN pc' = "invoking" ELSE pc' = "raised"

\* C16: in every attempt the oracle is called first, extraction runs only on
\* the reply that call returned, validation only on what that extraction
\* produced; a failure at any gate ends the attempt, and with attempts left
\* the next step is a new oracle call, never another extraction or
\* validation of a reply already seen.
C16_GateOrder == [][GateStep]_vars

\* C16 witness: a third attempt reaches validation after an oracle failure
\* and an extraction failure
C16_Witness ==
    /\ pc = "validating"
    /\ attempt = 2
    /\ calls = 3
    /\ trace = <<"oracle", "extract">>

-----------------------------------------------------------------------------
(* The delay between attempts *)

\* C17: a delay is made after a failed attempt exactly when another oracle
\* call follows: none before the first call, none after the attempt that
\* returns, none after the last failed attempt; so while a call or its
\* processing is under way the delays are one fewer than the calls, and so
\* they are when the loop has ended, by a return or by exhaustion, with
\* max_retries >= 1; and every delay lasts retry_sleep_seconds.
C17_DelayBetweenAttemptsOnly ==
    /\ \A i \in 1..Len(sleeps) : sleeps[i] = retry_sleep_seconds
    /\ pc \in {"resolve", "raised"} /\ calls = 0 => sleeps = <<>>
    /\ pc \in {"invoking", "extracting", "validating", "except", "returned"} =>
          /\ Len(sleeps) = calls - 1
          /\ Len(sleeps) = attempt
    /\ (pc = "loop" /\ attempt < max_retries) => Len(sleeps) = calls
    /\ (pc = "loop" /\ attempt = max_retries /\ max_retries >= 1) =>
          Len(sleeps) = calls - 1
    /\ (IsExhausted /\ max_retries >= 1) =>
          /\ Len(sleeps) = calls - 1
          /\ Len(sleeps) = max_retries - 1
    /\ max_retries = 0 => sleeps = <<>>

\* C17 witness: three failed attempts, two delays of two seconds
C17_Witness ==
    /\ IsExhausted
    /\ calls = 3
    /\ retry_sleep_seconds = 2
    /\ sleeps = <<2, 2>>

-----------------------------------------------------------------------------
(* Calls started and calls in flight *)

\* C18: the oracle calls started never exceed max_retries; at most one call
\* is in flight, and one is in flight exactly while the run waits in
\* call_llm_with_prompt; a new call can start only from the head of the
\* loop, when no call is in flight and every call made so far has ended in a
\* handled failure.
C18_BoundedSequentialCalls ==
    /\ calls <= max_retries
    /\ in_flight \in {0, 1}
    /\ in_flight = 1 <=> pc = "invoking"
    /\ ENABLED Invoke =>
          /\ pc = "loop"
          /\ in_flight = 0
          /\ calls = attempt
          /\ Len(trace) = calls
          /\ AllFailed
          /\ exc = NoExc
    /\ pc \in {"invoking", "extracting", "validating", "except"} =>
          /\ calls = attempt + 1
          /\ ~ENABLED Invoke

\* C18 witness: the last call of a budget of three is in flight
C18_Witness ==
    /\ pc = "invoking"
    /\ max_retries = 3
    /\ calls = 3
    /\ in_flight = 1

-----------------------------------------------------------------------------
(* Termination *)

\* the run is over: it has returned an instance or raised, not both
Terminated ==
    \/ pc = "returned" /\ outcome.kind = "return" /\ outcome.exc = NoExc
    \/ pc = "raised" /\ outcome.kind = "raise" /\ outcome.value = Null

\* C19: when every oracle call returns or fails, every run, whatever its
\* max_retries and whatever the oracle answers, eventually has returned an
\* instance or has raised, stays there, and its outcome, once there is one,
\* never changes.
C19_Termination ==
    /\ <>[]Terminated
    /\ [][outcome # NoOutcome => outcome' = outcome]_vars

\* C19 witness: a run that ends by exhaustion after three attempts, the
\* last of which the oracle failed
C19_Witness ==
    /\ Terminated
    /\ pc = "raised"
    /\ calls = 3
    /\ trace = <<"validate", "extract", "oracle">>

\* the positions of character c in text t
Positions(t, c) == { i \in 1..Len(t) : t[i].c = c }

\* the least and the greatest of a non-empty set of positions
First(P) == CHOOSE i \in P : \A j \in P : i <= j

Last(P) == CHOOSE i \in P : \A j \in P : j <= i

\* the text has no '{', no '}', or its first '{' lies after its last '}'
NoBracedSpan(t) ==
    \/ Positions(t, "{") = {}
    \/ Positions(t, "}") = {}
    \/ First(Positions(t, "{")) > Last(Positions(t, "}"))

\* the substring from the first '{' to the last '}'
BracedSpan(t) == SubSeq(t, First(Positions(t, "{")), Last(Positions(t, "}")))

Rejected(r) == r.exc.type = "ValueError" /\ r.text = <<>>

\* C20: extract returns a text that parses unchanged; otherwise it fails
\* at once (no JSON object found) when the text has no '{', no '}', or its
\* first '{' after its last '}', and otherwise returns the substring from
\* the first '{' to the last '}' when that parses and fails (not valid JSON)
\* when it does not; so every returned text parses, and a text without
\* braces that is not JSON is rejected.
C20_ExtractorPolicy ==
    pc = "extracted" =>
        LET t == fn_in.raw.toks
            r == fn_out
        IN /\ IF json_loads(t).ok
              THEN r = [exc |-> NoExc, text |-> t]
              ELSE IF NoBracedSpan(t)
              THEN Rejected(r) /\ r.exc.msg = "no_json_object"
              ELSE IF json_loads(BracedSpan(t)).ok
              THEN r = [exc |-> NoExc, text |-> BracedSpan(t)]
              ELSE Rejected(r) /\ r.exc.msg = "not_valid_json"
           /\ r.exc = NoExc => json_loads(r.text).ok
           /\ (Positions(t, "{") = {} /\ Positions(t, "}") = {} /\ ~json_loads(t).ok)
                 => Rejected(r)

\* C20 witness: "no{}" is not JSON and is cut down to "{}"
C20_Witness ==
    /\ pc = "extracted"
    /\ fn_in.raw.toks = <<Word("no"), Punct("{"), Punct("}")>>
    /\ fn_out = [exc |-> NoExc, text |-> <<Punct("{"), Punct("}")>>]

\* one step of a run keeps the skeleton and the template document, keeps
\* the template once it is resolved, and keeps the instance while it is
\* being validated
KeepsInputs ==
    /\ skeleton' = skeleton
    /\ template_full' = template_full
    /\ pc # "resolve" => template' = template
    /\ pc = "validating" => instance' = instance

\* the resolved template is the entry of the document, and what is returned
\* is the instance as it was parsed from the last reply
InputsAsGiven ==
    /\ pc \notin {"resolve", "raised"} =>
          template = get_template_by_id(template_full, template_id).val
    /\ outcome.kind = "return" =>
          outcome.value = parse_vpgm_instance(raw_output).val

\* C21: a run leaves the skeleton, the resolved template and the template
\* document as they were, whatever its outcome and number of attempts, and
\* validation does not rewrite the instance it checks.
C21_InputsUnchanged ==
    /\ [][KeepsInputs]_vars
    /\ []InputsAsGiven

\* C21 witness: a run that returned on its third attempt, after a rejected
\* instance and a failed extraction
C21_Witness ==
    /\ pc = "returned"
    /\ calls = 3
    /\ trace = <<"validate", "extract", "ok">>
    /\ template = get_template_by_id(template_full, template_id).val
    /\ outcome.value = instance

\* the declared template list of a document: the elements of "templates",
\* none when the document has no such key
DeclaredList(doc) ==
    IF HasKey(doc, "templates")
    THEN [i \in 1..Len(Lookup(doc, "templates").items) |->
             Lookup(doc, "templates").items[i].val]
    ELSE <<>>

\* a document as the registry describes it: the template list, when there
\* is one, is a list of mappings
ListOfMappings(doc) ==
    /\ doc.k = "obj"
    /\ HasKey(doc, "templates") => Lookup(doc, "templates").k = "arr"
    /\ \A i \in 1..Len(DeclaredList(doc)) : DeclaredList(doc)[i].k = "obj"

\* the positions of the entries whose id is exactly tid
EntriesWithId(doc, tid) ==
    { i \in 1..Len(DeclaredList(doc)) :
        /\ HasKey(DeclaredList(doc)[i], "id")
        /\ Lookup(DeclaredList(doc)[i], "id") = tid }

\* C22: resolution returns the first entry, in document order, whose id
\* equals the requested id, and raises the not-found error exactly when no
\* entry has that id, an empty or missing list included; what it returns
\* always carries the requested id.
C22_FirstExactMatchOrNotFound ==
    (pc = "resolved" /\ ListOfMappings(fn_in.doc)) =>
        LET with == EntriesWithId(fn_in.doc, fn_in.tid) IN
        /\ IF with = {}
           THEN fn_out = [exc |-> Exc("ValueError", "template_not_found", "resolve"),
                          val |-> Null]
           ELSE fn_out = [exc |-> NoExc,
                          val |-> DeclaredList(fn_in.doc)[First(with)]]
        /\ fn_out.exc = NoExc => Lookup(fn_out.val, "id") = fn_in.tid

\* C22 witness: of the entries "t", "T", "T" the second is returned for "T"
C22_Witness ==
    /\ pc = "resolved"
    /\ fn_in = [doc |-> Doc(<<Tmpl(Str("t"), Str("T")), TmplOnlyL1,
                              Tmpl(Str("T"), Str("T"))>>),
                tid |-> Str("T")]
    /\ fn_out = [exc |-> NoExc, val |-> TmplOnlyL1]

\* the template has been resolved: the run is past lines 228-229
TemplateResolved ==
    /\ pc # "resolve"
    /\ get_template_by_id(template_full, template_id).exc = NoExc

\* the outcome of a run, if it has one, is a validated instance or the
\* RuntimeError raised after the last attempt
ValidatedOrExhausted ==
    \/ outcome = NoOutcome
    \/ /\ outcome.kind = "return"
       /\ validate_vpgm_instance_against_template(outcome.value, template) = NoExc
    \/ /\ outcome = Raised(Exc("RuntimeError", "inference_failed", "exhausted"), last_error)
       /\ attempt = max_retries

\* the handler takes whatever was raised: the error is kept as the last
\* error, the attempt is used up, nothing leaves the function, and another
\* oracle call follows while the budget lasts
CaughtAndCounted ==
    pc = "except" =>
        /\ last_error' = exc
        /\ attempt' = attempt + 1
        /\ outcome' = NoOutcome
        /\ pc' = "loop"
        /\ trace' = Append(trace, exc.at)
        /\ HasAttemptLeft(attempt', max_retries) => (ENABLED Invoke)'

\* C23: once the template is resolved a run ends in a validated instance or
\* in the exhausted-retries error and nothing else; whatever is raised
\* inside an attempt, TypeError and AttributeError of a reply that is no
\* object or has fields that are no mappings included, reaches the handler,
\* uses up one attempt and is followed by a new attempt.
C23_EveryFailureCaught ==
    /\ [](TemplateResolved => ValidatedOrExhausted)
    /\ [](exc # NoExc => pc = "except" /\ outcome = NoOutcome)
    /\ [][CaughtAndCounted]_vars

\* C23 witness: a reply that is a number and a reply whose observed is null
\* each cost one attempt, and the third attempt returned
C23_Witness ==
    /\ pc = "returned"
    /\ attempt = 2
    /\ calls = 3
    /\ last_error.type \in {"TypeError", "AttributeError"}
    /\ last_error.at = "validate"
    /\ trace = <<"validate", "validate", "ok">>

====
